---------------------------- MODULE Spec2Model ----------------------------
(***************************************************************************)
(* A model of the economic core of the BitLink API (src/api/app): the sat   *)
(* ledger, the posting / liking handlers that charge it, and the T+7d       *)
(* discovery-score settlement.                                              *)
(*                                                                          *)
(* Conventions                                                              *)
(*   - Time is counted in whole days (created_at, before_date, now).        *)
(*   - Python floats are modelled as exact rationals; a discovery score is  *)
(*     an integer number of 1/ScoreScale units, and int(x) of a             *)
(*     non-negative x is the floor of the exact quotient.                   *)
(*   - Integers stay below 2^31.                                            *)
(*   - A service or handler is an operator from the database as its         *)
(*     session sees it to the database it leaves; an action applies it to   *)
(*     the committed database.  A request runs in its own session.  The     *)
(*     sequential specifications run a whole handler and its commit (or     *)
(*     rollback) as one step; the race specifications split a handler at    *)
(*     its database statements under READ COMMITTED with row locks and      *)
(*     unique indexes.                                                      *)
(***************************************************************************)
EXTENDS Integers, Sequences, FiniteSets, TLC

VARIABLES
    db,     \* the committed database: one field per table or users column
    now,    \* datetime.utcnow(), in days
    op,     \* the last call: its arguments and what it returned
    tx      \* the open database sessions of the race specifications

vars == <<db, now, op, tx>>

\* The tables of the committed database.
available_balance == db.available_balance        \* User.available_balance
user_scores == db.user_scores                    \* User.creator_score .. trust_score
free_posts_remaining == db.free_posts_remaining  \* User.free_posts_remaining
ledger == db.ledger                              \* ledger, in insertion order
posts == db.posts                                \* posts (id = index)
comments == db.comments                          \* comments (id = index)
post_likes == db.post_likes                      \* <<post_id, user_id>>
comment_likes == db.comment_likes                \* <<comment_id, user_id>>
interaction_logs == db.interaction_logs          \* in insertion order
follows == db.follows                            \* <<follower_id, following_id>>
reward_pools == db.reward_pools                  \* rows, unique settle_date
post_rewards == db.post_rewards                  \* rows, unique post_id
comment_rewards == db.comment_rewards            \* rows, unique comment_id
challenges == db.challenges                      \* rows
platform_revenue == db.platform_revenue          \* PlatformRevenue.total, all days

-----------------------------------------------------------------------------
(* Bounds of the model *)

MaxAmount == 2     \* the largest amount of a direct ledger call
MaxLedger == 4     \* ledger entries, in the specification of the ledger alone
MaxPosts == 2      \* posts
MaxEntries == 5    \* ledger entries, in the specifications of the API
MaxFollows == 1    \* follows
MaxDay == 7        \* the last day the clock reaches
MaxBatch == 10     \* posts of one settlement batch
MaxChallenges == 2 \* challenges filed, in the specification of challenges
MaxWeeks == 2      \* weeks that pass, in the specification of challenges
MaxUpdates == 4    \* trust updates, in the specification of the trust scores
MaxTrust == 1100   \* the highest trust score a fee is quoted for
MaxRisk == 1000    \* the highest risk score a penalty is computed for
MaxTierScore == 1100 \* the end of the lower stretch of scores that are classified

-----------------------------------------------------------------------------
(* Users *)

Users == {1, 2, 3}

\* A user id no row of the users table carries while the table has three rows.
UnknownUser == 4

UserIds == Users \cup {UnknownUser}

\* Python's None for an optional id (Ledger.ref_id, Comment.parent_id).
NoRef == 0

Max(a, b) == IF a >= b THEN a ELSE b

Min(a, b) == IF a <= b THEN a ELSE b

\* Python's round(num / den) for den > 0: to the nearest integer, ties to even.
RoundHalfEven(num, den) ==
    LET q == num \div den
        r == num % den
    IN IF 2 * r < den THEN q
       ELSE IF 2 * r > den THEN q + 1
       ELSE IF q % 2 = 0 THEN q ELSE q + 1

\* The sum of f[x] over the finite set S.
RECURSIVE SumOver(_, _)
SumOver(S, f) ==
    IF S = {} THEN 0
    ELSE LET x == CHOOSE y \in S : TRUE IN f[x] + SumOver(S \ {x}, f)

\* The elements of a finite set of integers, ascending.
RECURSIVE Ascending(_)
Ascending(S) ==
    IF S = {} THEN <<>>
    ELSE LET x == CHOOSE y \in S : \A z \in S : y <= z
         IN <<x>> \o Ascending(S \ {x})

-----------------------------------------------------------------------------
(* LedgerService *)

Entry(user_id, amount, balance_after, action_type, ref_type, ref_id) ==
    [user_id |-> user_id, amount |-> amount, balance_after |-> balance_after,
     action_type |-> action_type, ref_type |-> ref_type, ref_id |-> ref_id]

\* The checks spend makes before it touches anything.
SpendError_NoBalanceCheck(bal, user_id, amount) ==
    IF amount <= 0 THEN "ValueError"
    ELSE IF user_id \notin DOMAIN bal THEN "ValueError"
    ELSE "ok"

SpendError(bal, user_id, amount) ==
    IF amount <= 0 THEN "ValueError"
    ELSE IF user_id \notin DOMAIN bal THEN "ValueError"
    ELSE IF bal[user_id] < amount THEN "InsufficientBalance"
    ELSE "ok"

EarnError(bal, user_id, amount) ==
    IF amount <= 0 THEN "ValueError"
    ELSE IF user_id \notin DOMAIN bal THEN "ValueError"
    ELSE "ok"

\* LedgerService.spend on the session state (bal, led): the outcome and the
\* state it leaves.
LedgerSpend_WriteOnError(bal, led, user_id, amount, action_type, ref_type, ref_id) ==
    LET err == SpendError(bal, user_id, amount) IN
    IF user_id \notin DOMAIN bal
    THEN [result |-> err, balance |-> bal, ledger |-> led]
    ELSE LET nb == bal[user_id] - amount IN
         [result |-> err,
          balance |-> [bal EXCEPT ![user_id] = nb],
          ledger |-> Append(led, Entry(user_id, -amount, nb, action_type,
                                       ref_type, ref_id))]

LedgerSpend(bal, led, user_id, amount, action_type, ref_type, ref_id) ==
    LET err == SpendError(bal, user_id, amount) IN
    IF err # "ok"
    THEN [result |-> err, balance |-> bal, ledger |-> led]
    ELSE LET nb == bal[user_id] - amount IN
         [result |-> "ok",
          balance |-> [bal EXCEPT ![user_id] = nb],
          ledger |-> Append(led, Entry(user_id, -amount, nb, action_type,
                                       ref_type, ref_id))]

LedgerEarn_StaleBalanceAfter(bal, led, user_id, amount, action_type, ref_type, ref_id) ==
    LET err == EarnError(bal, user_id, amount) IN
    IF err # "ok"
    THEN [result |-> err, balance |-> bal, ledger |-> led]
    ELSE [result |-> "ok",
          balance |-> [bal EXCEPT ![user_id] = bal[user_id] + amount],
          ledger |-> Append(led, Entry(user_id, amount, bal[user_id],
                                       action_type, ref_type, ref_id))]

LedgerEarn(bal, led, user_id, amount, action_type, ref_type, ref_id) ==
    LET err == EarnError(bal, user_id, amount) IN
    IF err # "ok"
    THEN [result |-> err, balance |-> bal, ledger |-> led]
    ELSE LET nb == bal[user_id] + amount IN
         [result |-> "ok",
          balance |-> [bal EXCEPT ![user_id] = nb],
          ledger |-> Append(led, Entry(user_id, amount, nb, action_type,
                                       ref_type, ref_id))]

-----------------------------------------------------------------------------
(* TrustScoreService *)

SCORE_MIN == 0
SCORE_MAX == 99999
JUROR_BASELINE == 300

\* Lines 66-71: the risk penalty, in units of 1/2500: (risk / 50) ** 2 up to
\* risk 100, 125 + (risk - 100) * 5 above.
RiskPenalty(risk) ==
    IF risk <= 100 THEN risk * risk
    ELSE 2500 * (125 + (risk - 100) * 5)

\* compute_trust_score: raw = creator * 0.6 + curator * 0.3 + juror_bonus
\* - risk_penalty, here over the common denominator 2500.
ComputeTrustScore(creator, curator, juror, risk) ==
    LET base10 == 6 * creator + 3 * curator
        juror_bonus10 == Max(0, juror - JUROR_BASELINE)
        risk_penalty2500 == RiskPenalty(risk)
        raw2500 == 250 * (base10 + juror_bonus10) - risk_penalty2500
    IN Max(SCORE_MIN, RoundHalfEven(raw2500, 2500))

Clamp(value) == Max(SCORE_MIN, Min(SCORE_MAX, value))

Recomputed(sc) ==
    [sc EXCEPT !.trust_score = ComputeTrustScore(sc.creator_score, sc.curator_score,
                                                 sc.juror_score, sc.risk_score)]

\* update_creator / update_curator on the scores of all users.
UpdateCreator(scores, user_id, delta) ==
    [scores EXCEPT ![user_id] =
        Recomputed([@ EXCEPT !.creator_score = Clamp(@ + delta)])]

UpdateCurator(scores, user_id, delta) ==
    [scores EXCEPT ![user_id] =
        Recomputed([@ EXCEPT !.curator_score = Clamp(@ + delta)])]

\* TRUST_TIER_RANGES: the bands of white, green, blue, purple and orange,
\* here tiers 0 to 4.
TRUST_TIER_RANGES == <<<<0, 150>>, <<151, 250>>, <<251, 400>>, <<401, 700>>, <<701, 99999>>>>

\* trust_tier: the first band that holds the score, white if none does.
TrustTier(trust_score) ==
    LET holding == {i \in 1 .. 5 : /\ TRUST_TIER_RANGES[i][1] <= trust_score
                                   /\ trust_score <= TRUST_TIER_RANGES[i][2]}
    IN IF holding = {} THEN 0
       ELSE (CHOOSE i \in holding : \A j \in holding : i <= j) - 1

\* TIER_REWARD_MULTIPLIER, in hundredths, for tiers 0 to 4.
TIER_REWARD_MULTIPLIER == <<100, 70, 50, 30, 15>>

\* get_tier_multiplier.  No update of TrustScoreService calls it.
GetTierMultiplier(trust_score) == TIER_REWARD_MULTIPLIER[TrustTier(trust_score) + 1]

UpdateJuror_NoRecompute(scores, user_id, delta) ==
    [scores EXCEPT ![user_id].juror_score = Clamp(@ + delta)]

UpdateJuror(scores, user_id, delta) ==
    [scores EXCEPT ![user_id] =
        Recomputed([@ EXCEPT !.juror_score = Clamp(@ + delta)])]

UpdateRisk_Dropped(scores, user_id, delta) == scores

UpdateRisk(scores, user_id, delta) ==
    [scores EXCEPT ![user_id] =
        Recomputed([@ EXCEPT !.risk_score = Clamp(@ + delta)])]

\* dynamic_fee_multiplier, in units of 1/10000: round(1.4 - trust/1250, 4)
\* is exactly (14000 - 8 * trust) / 10000.
DynamicFeeMultiplier_NoFloor(trust_score) == Min(14000, 14000 - 8 * trust_score)

DynamicFeeMultiplier(trust_score) == Max(6000, Min(14000, 14000 - 8 * trust_score))

\* _apply_k
ApplyK(base_cost, trust_score) ==
    Max(1, RoundHalfEven(base_cost * DynamicFeeMultiplier(trust_score), 10000))

-----------------------------------------------------------------------------
(* The tables *)

\* The column defaults of a new User row; trust_score 135 is the stored default.
NewScores == [creator_score |-> 150, curator_score |-> 150, juror_score |-> 300,
              risk_score |-> 30, trust_score |-> 135]

\* The database once the users exist and nothing else does.
EmptyDb ==
    [available_balance |-> [u \in Users |-> 0],
     user_scores |-> [u \in Users |-> NewScores],
     free_posts_remaining |-> [u \in Users |-> 1],
     ledger |-> <<>>,
     posts |-> <<>>, comments |-> <<>>,
     post_likes |-> {}, comment_likes |-> {},
     interaction_logs |-> <<>>, follows |-> {},
     reward_pools |-> {}, post_rewards |-> {}, comment_rewards |-> {},
     challenges |-> {}, platform_revenue |-> 0]

\* seed.create_users: the deposit is the opening balance and the first ledger
\* entry.  An account made by the create_user route opens with 0 sat and no
\* entry (deposit 0 below).
RECURSIVE SeedLedger(_, _)
SeedLedger(deposit, todo) ==
    IF todo = {} THEN <<>>
    ELSE LET u == CHOOSE x \in todo : \A y \in todo : x >= y
             rest == SeedLedger(deposit, todo \ {u})
         IN IF deposit[u] = 0 THEN rest
            ELSE Append(rest, Entry(u, deposit[u], deposit[u], "deposit", "none", NoRef))

SeededDb(deposit) ==
    [EmptyDb EXCEPT !.available_balance = deposit,
                    !.ledger = SeedLedger(deposit, Users)]

\* seed.create_users for one more account: the next id, the column defaults,
\* the deposit as opening balance and ledger entry.
WithSeededUser(d, deposit) ==
    LET user_id == Cardinality(DOMAIN d.user_scores) + 1
        Row(table, value) ==
            [u \in DOMAIN table \cup {user_id} |-> IF u = user_id THEN value ELSE table[u]]
    IN [d EXCEPT !.available_balance = Row(@, deposit),
                 !.user_scores = Row(@, NewScores),
                 !.free_posts_remaining = Row(@, 1),
                 !.ledger = Append(@, Entry(user_id, deposit, deposit, "deposit",
                                            "none", NoRef))]

\* The next value of a table's id sequence.
NextId(rows) ==
    IF rows = {} THEN 1
    ELSE 1 + (CHOOSE i \in {r.id : r \in rows} : \A r \in rows : r.id <= i)

-----------------------------------------------------------------------------
(* DiscoveryService: the Discovery Score *)

\* A score is kept in units of 1/ScoreScale: W_trust in halves times
\* N_novelty in hundredths times S_source in twentieths.
ScoreScale == 2 * 100 * 20

\* w_trust, in halves (W_TRUST_TABLE: 0.5, 1.0, 2.0, 3.5, 6.0).
WTrust(trust_score) ==
    IF 0 <= trust_score /\ trust_score <= 399 THEN 1
    ELSE IF 400 <= trust_score /\ trust_score <= 599 THEN 2
    ELSE IF 600 <= trust_score /\ trust_score <= 749 THEN 4
    ELSE IF 750 <= trust_score /\ trust_score <= 899 THEN 7
    ELSE IF 900 <= trust_score /\ trust_score <= 1000 THEN 12
    ELSE 1

\* n_novelty, in hundredths (N_NOVELTY_TABLE: 1.0, 0.6, 0.3, 0.12, 0.05).
NNovelty(interaction_count) ==
    IF interaction_count = 0 THEN 100
    ELSE IF 1 <= interaction_count /\ interaction_count <= 3 THEN 60
    ELSE IF 4 <= interaction_count /\ interaction_count <= 10 THEN 30
    ELSE IF 11 <= interaction_count /\ interaction_count <= 30 THEN 12
    ELSE 5

\* _get_novelty: the interactions of the last 30 days, less the current one.
GetNovelty(d, at, actor_id, target_user_id) ==
    LET count == Cardinality({i \in 1 .. Len(d.interaction_logs) :
                     /\ d.interaction_logs[i].actor_id = actor_id
                     /\ d.interaction_logs[i].target_user_id = target_user_id
                     /\ d.interaction_logs[i].created_at >= at - 30})
    IN NNovelty(Max(0, count - 1))

\* _get_source, in twentieths: S_FOLLOWER (0.15) if the liker follows the
\* author, S_STRANGER (1.0) if not.
GetSource(d, liker_id, author_id) ==
    IF <<liker_id, author_id>> \in d.follows THEN 3 ELSE 20

LikeWeight(d, at, liker_id, author_id) ==
    WTrust(d.user_scores[liker_id].trust_score)
        * GetNovelty(d, at, liker_id, author_id) * GetSource(d, liker_id, author_id)

PostLikers(d, post_id) == {u \in DOMAIN d.user_scores : <<post_id, u>> \in d.post_likes}

CommentLikers(d, comment_id) == {u \in DOMAIN d.user_scores : <<comment_id, u>> \in d.comment_likes}

\* calculate_post_score
CalculatePostScore(d, at, post_id) ==
    SumOver(PostLikers(d, post_id),
            [u \in DOMAIN d.user_scores |-> LikeWeight(d, at, u, d.posts[post_id].author_id)])

\* calculate_comment_score
CalculateCommentScore(d, at, comment_id) ==
    SumOver(CommentLikers(d, comment_id),
            [u \in DOMAIN d.user_scores |-> LikeWeight(d, at, u, d.comments[comment_id].author_id)])

-----------------------------------------------------------------------------
(* routes/posts.py and routes/users.py: the handlers *)

BASE_POST_COST == 200
BASE_QUESTION_COST == 300
BASE_ANSWER_COST == 200
BASE_COMMENT_COST == 50
BASE_REPLY_COST == 20
BASE_LIKE_POST_COST == 10
BASE_LIKE_COMMENT_COST == 5

\* What a handler leaves: its HTTP outcome and the database of its session,
\* which get_db commits when the handler returns and rolls back when it raises.
Done(d) == [result |-> "ok", db |-> d]

Raised(d, status) == [result |-> status, db |-> d]

\* ledger.spend inside a handler
Charge(d, user_id, amount, action_type, ref_type, ref_id) ==
    LET Into(r) == [result |-> r.result,
                    db |-> [d EXCEPT !.available_balance = r.balance,
                                     !.ledger = r.ledger]]
    IN Into(LedgerSpend(d.available_balance, d.ledger, user_id, amount,
                        action_type, ref_type, ref_id))

\* ledger.earn inside a service
Pay(d, user_id, amount, action_type, ref_type, ref_id) ==
    LET Into(r) == [result |-> r.result,
                    db |-> [d EXCEPT !.available_balance = r.balance,
                                     !.ledger = r.ledger]]
    IN Into(LedgerEarn(d.available_balance, d.ledger, user_id, amount,
                       action_type, ref_type, ref_id))

\* UPDATE ledger SET ref_id = :id WHERE user_id = :u AND ref_id IS NULL
\*                                  AND action_type = :t
FixUpRefIds_AnyRef(led, user_id, action_type, ref_id) ==
    [i \in 1 .. Len(led) |->
        IF led[i].user_id = user_id /\ led[i].action_type = action_type
        THEN [led[i] EXCEPT !.ref_id = ref_id]
        ELSE led[i]]

FixUpRefIds(led, user_id, action_type, ref_id) ==
    [i \in 1 .. Len(led) |->
        IF led[i].user_id = user_id /\ led[i].ref_id = NoRef
               /\ led[i].action_type = action_type
        THEN [led[i] EXCEPT !.ref_id = ref_id]
        ELSE led[i]]

\* _log_interaction
LogInteraction(d, at, actor_id, target_user_id) ==
    IF actor_id = target_user_id THEN d
    ELSE [d EXCEPT !.interaction_logs =
             Append(@, [actor_id |-> actor_id, target_user_id |-> target_user_id,
                        created_at |-> at])]

\* create_post
CreatePostOn(d, at, author_id, post_type, bounty) ==
    IF author_id \notin DOMAIN d.user_scores THEN Raised(d, "404") ELSE
    LET is_question == post_type = "question"
        raw_cost == IF is_question THEN BASE_QUESTION_COST ELSE BASE_POST_COST
        base_cost == ApplyK(raw_cost, d.user_scores[author_id].trust_score)
        action_type == IF is_question THEN "spend_question" ELSE "spend_post"
        is_free == d.free_posts_remaining[author_id] > 0
        fee_paid == IF is_free THEN 0 ELSE base_cost
        total_cost == fee_paid + bounty
        \* Lines 205-211: the bounty's entry gets the post id.
        FixBounty(d5, post_id) ==
            IF bounty > 0
            THEN [d5 EXCEPT !.ledger = FixUpRefIds(@, author_id, "spend_boost", post_id)]
            ELSE d5
        \* Lines 183-202: the FREE_POST entry, or the fee's entry gets the post id.
        FixFee(d4, post_id) ==
            FixBounty(IF is_free
                      THEN [d4 EXCEPT !.ledger =
                               Append(@, Entry(author_id, 0,
                                               d4.available_balance[author_id],
                                               "free_post", "post", post_id))]
                      ELSE [d4 EXCEPT !.ledger =
                               FixUpRefIds(@, author_id, action_type, post_id)],
                      post_id)
        \* Lines 170-178: the post row.
        AddPost(d3) ==
            FixFee([d3 EXCEPT !.posts =
                       Append(@, [author_id |-> author_id, post_type |-> post_type,
                                  bounty |-> bounty, cost_paid |-> fee_paid + bounty,
                                  status |-> "active", created_at |-> at])],
                   Len(d3.posts) + 1)
        AfterBounty(c3) ==
            IF c3.result # "ok" THEN Raised(c3.db, c3.result) ELSE Done(AddPost(c3.db))
        \* Lines 163-168: the bounty.
        AfterFee(c2) ==
            IF c2.result # "ok" THEN Raised(c2.db, c2.result)
            ELSE AfterBounty(IF bounty > 0
                             THEN Charge(c2.db, author_id, bounty, "spend_boost",
                                         "post", NoRef)
                             ELSE Done(c2.db))
        \* Lines 151-160: the free post is used up, or the fee is charged.
        TakeFee(d1) ==
            AfterFee(IF fee_paid > 0
                     THEN Charge(d1, author_id, fee_paid, action_type, "post", NoRef)
                     ELSE Done(d1))
    IN IF total_cost > d.available_balance[author_id] THEN Raised(d, "402")
       ELSE TakeFee(IF is_free
                    THEN [d EXCEPT !.free_posts_remaining[author_id] = @ - 1]
                    ELSE d)

PostIsActive(d, post_id) ==
    post_id \in 1 .. Len(d.posts) /\ d.posts[post_id].status = "active"

CommentExists(d, comment_id) ==
    comment_id \in 1 .. Len(d.comments) /\ ~d.comments[comment_id].deleted

\* create_comment
CreateCommentOn(d, at, post_id, author_id, parent_id) ==
    IF ~PostIsActive(d, post_id) THEN Raised(d, "404")
    ELSE IF author_id \notin DOMAIN d.user_scores THEN Raised(d, "404") ELSE
    LET post == d.posts[post_id]
        is_reply == parent_id # NoRef
        is_answer == post.post_type = "question" /\ ~is_reply
        trust == d.user_scores[author_id].trust_score
        cost == IF is_answer THEN ApplyK(BASE_ANSWER_COST, trust)
                ELSE IF is_reply THEN ApplyK(BASE_REPLY_COST, trust)
                ELSE ApplyK(BASE_COMMENT_COST, trust)
        action_type == IF is_answer THEN "spend_answer"
                       ELSE IF is_reply THEN "spend_reply"
                       ELSE "spend_comment"
        \* Lines 496-504: the entry gets the comment id.
        FixRef(d3, comment_id) ==
            [d3 EXCEPT !.ledger = FixUpRefIds(@, author_id, action_type, comment_id)]
        \* Lines 479-494: the comment row and the interaction.
        AddComment(d1) ==
            FixRef(LogInteraction(
                       [d1 EXCEPT !.comments =
                           Append(@, [post_id |-> post_id, author_id |-> author_id,
                                      parent_id |-> parent_id, cost_paid |-> cost,
                                      created_at |-> at, deleted |-> FALSE])],
                       at, author_id, post.author_id),
                   Len(d1.comments) + 1)
        AfterCharge(c1) ==
            IF c1.result = "InsufficientBalance" THEN Raised(c1.db, "402")
            ELSE IF c1.result # "ok" THEN Raised(c1.db, c1.result)
            ELSE Done(AddComment(c1.db))
    IN
    IF is_answer /\ post.author_id = author_id THEN Raised(d, "400")
    ELSE IF is_reply /\ ~(CommentExists(d, parent_id)
                             /\ d.comments[parent_id].post_id = post_id)
    THEN Raised(d, "400")
    ELSE AfterCharge(Charge(d, author_id, cost, action_type, "comment", NoRef))

\* like_post
LikePostOn(d, at, post_id, user_id) ==
    IF ~PostIsActive(d, post_id) THEN Raised(d, "404")
    ELSE IF d.posts[post_id].author_id = user_id THEN Raised(d, "400")
    ELSE IF <<post_id, user_id>> \in d.post_likes THEN Done(d)
    ELSE IF user_id \notin DOMAIN d.user_scores THEN Raised(d, "404") ELSE
    LET like_cost == ApplyK(BASE_LIKE_POST_COST, d.user_scores[user_id].trust_score)
        AddLike(d1) ==
            LogInteraction([d1 EXCEPT !.post_likes = @ \cup {<<post_id, user_id>>}],
                           at, user_id, d.posts[post_id].author_id)
        AfterCharge(c1) ==
            IF c1.result = "InsufficientBalance" THEN Raised(c1.db, "402")
            ELSE IF c1.result # "ok" THEN Raised(c1.db, c1.result)
            ELSE Done(AddLike(c1.db))
    IN AfterCharge(Charge(d, user_id, like_cost, "spend_like", "post", post_id))

\* like_comment
LikeCommentOn(d, at, post_id, comment_id, user_id) ==
    IF ~(CommentExists(d, comment_id) /\ d.comments[comment_id].post_id = post_id)
    THEN Raised(d, "404")
    ELSE IF d.comments[comment_id].author_id = user_id THEN Raised(d, "400")
    ELSE IF <<comment_id, user_id>> \in d.comment_likes THEN Done(d)
    ELSE IF user_id \notin DOMAIN d.user_scores THEN Raised(d, "404") ELSE
    LET cl_cost == ApplyK(BASE_LIKE_COMMENT_COST, d.user_scores[user_id].trust_score)
        AddLike(d1) ==
            LogInteraction([d1 EXCEPT !.comment_likes = @ \cup {<<comment_id, user_id>>}],
                           at, user_id, d.comments[comment_id].author_id)
        AfterCharge(c1) ==
            IF c1.result = "InsufficientBalance" THEN Raised(c1.db, "402")
            ELSE IF c1.result # "ok" THEN Raised(c1.db, c1.result)
            ELSE Done(AddLike(c1.db))
    IN AfterCharge(Charge(d, user_id, cl_cost, "spend_comment_like", "comment",
                          comment_id))

\* follow_user
FollowOn(d, user_id, follower_id) ==
    IF user_id = follower_id THEN Raised(d, "400")
    ELSE IF ~({user_id, follower_id} \subseteq DOMAIN d.user_scores) THEN Raised(d, "404")
    ELSE IF <<follower_id, user_id>> \in d.follows THEN Raised(d, "400")
    ELSE Done([d EXCEPT !.follows = @ \cup {<<follower_id, user_id>>}])

-----------------------------------------------------------------------------
(* ChallengeService *)

BASE_CHALLENGE_FEE == 100
CHALLENGE_WINDOW_DAYS == 7

\* The comment and, by the cascade of comments.parent_id, its replies.
RECURSIVE WithReplies(_, _)
WithReplies(d, cs) ==
    LET more == {c \in 1 .. Len(d.comments) :
                    ~d.comments[c].deleted /\ d.comments[c].parent_id \in cs} \ cs
    IN IF more = {} THEN cs ELSE WithReplies(d, cs \cup more)

\* await self.db.delete(comment): the row goes, and with it the rows that
\* reference it ON DELETE CASCADE.
DeleteComment(d, comment_id) ==
    LET Gone(cs) ==
            [d EXCEPT
                !.comments = [c \in 1 .. Len(@) |->
                                 IF c \in cs THEN [@[c] EXCEPT !.deleted = TRUE]
                                 ELSE @[c]],
                !.comment_likes = {l \in @ : l[1] \notin cs},
                !.comment_rewards = {r \in @ : r.comment_id \notin cs}]
    IN Gone(WithReplies(d, {comment_id}))

SettleGuilty_RewardFromFullFine(d, challenge, content_cost) ==
    LET challenge_id == challenge.id
        author_id == challenge.author_id
        challenger_id == challenge.challenger_id
        fee == challenge.fee_paid
        full_fine == Max(1, content_cost)
        can_pay == d.available_balance[author_id] >= full_fine
        fine == IF can_pay THEN full_fine ELSE Max(0, d.available_balance[author_id])
        reward == RoundHalfEven(full_fine * 35, 100)
        Trust(d4) ==
            [d4 EXCEPT !.user_scores =
                UpdateCreator(UpdateRisk(UpdateCreator(@, author_id, -30),
                                         author_id, 20),
                              challenger_id, 5)]
        Reward(d3) ==
            IF fee + reward > 0
            THEN Trust(Pay(d3, challenger_id, fee + reward, "challenge_reward",
                           "challenge", challenge_id).db)
            ELSE Trust(d3)
        Fine(d2) ==
            Reward(IF can_pay
                   THEN Charge(d2, author_id, fine, "fine", "challenge",
                               challenge_id).db
                   ELSE [(IF fine > 0
                          THEN Charge(d2, author_id, fine, "fine", "challenge",
                                      challenge_id).db
                          ELSE d2)
                         EXCEPT !.user_scores = UpdateRisk(@, author_id, 30)])
    IN \* Lines 138-146: the content goes.
       Fine(IF challenge.content_type = "post"
            THEN [d EXCEPT !.posts[challenge.content_id].status = "deleted"]
            ELSE DeleteComment(d, challenge.content_id))

\* _settle_guilty
SettleGuilty(d, challenge, content_cost) ==
    LET challenge_id == challenge.id
        author_id == challenge.author_id
        challenger_id == challenge.challenger_id
        fee == challenge.fee_paid
        full_fine == Max(1, content_cost)
        can_pay == d.available_balance[author_id] >= full_fine
        fine == IF can_pay THEN full_fine ELSE Max(0, d.available_balance[author_id])
        reward == RoundHalfEven(fine * 35, 100)
        \* Lines 184-187: the trust deltas.
        Trust(d4) ==
            [d4 EXCEPT !.user_scores =
                UpdateCreator(UpdateRisk(UpdateCreator(@, author_id, -30),
                                         author_id, 20),
                              challenger_id, 5)]
        \* Lines 171-182: the challenger's refund and reward.
        Reward(d3) ==
            IF fee + reward > 0
            THEN Trust(Pay(d3, challenger_id, fee + reward, "challenge_reward",
                           "challenge", challenge_id).db)
            ELSE Trust(d3)
        \* Lines 150-169: the fine, as far as the balance goes.
        Fine(d2) ==
            Reward(IF can_pay
                   THEN Charge(d2, author_id, fine, "fine", "challenge",
                               challenge_id).db
                   ELSE [(IF fine > 0
                          THEN Charge(d2, author_id, fine, "fine", "challenge",
                                      challenge_id).db
                          ELSE d2)
                         EXCEPT !.user_scores = UpdateRisk(@, author_id, 30)])
    IN \* Lines 138-146: the content goes.
       Fine(IF challenge.content_type = "post"
            THEN [d EXCEPT !.posts[challenge.content_id].status = "deleted"]
            ELSE DeleteComment(d, challenge.content_id))

\* _settle_not_guilty
SettleNotGuilty(d, challenge) ==
    LET challenge_id == challenge.id
        author_id == challenge.author_id
        author_share == RoundHalfEven(challenge.fee_paid * 20, 100)
        Trust(d1) == [d1 EXCEPT !.user_scores = UpdateCreator(@, author_id, 3)]
    IN IF author_share > 0
       THEN Trust(Pay(d, author_id, author_share, "challenge_reward", "challenge",
                      challenge_id).db)
       ELSE Trust(d)

\* _build_ai_context, lines 222-231: the author's guilty challenges, at most 10.
PastViolations(d, author_id) ==
    Min(10, Cardinality({c \in d.challenges :
                            c.author_id = author_id /\ c.status = "guilty"}))

\* Whether the text of the content holds one of the spam keywords of
\* _rule_based_fallback.  The model does not keep the texts: those of the
\* posts and comments with an even id do.
HasSpamKeyword(content_type, content_id) == content_id % 2 = 0

\* _rule_based_fallback
RuleBasedFallback(d, author_id, spam) ==
    IF d.user_scores[author_id].risk_score > 200 /\ PastViolations(d, author_id) >= 2
    THEN "guilty"
    ELSE IF spam THEN "guilty"
    ELSE "not_guilty"

\* _call_ai_moderation.  `oracle` is "none" when neither API key is set;
\* otherwise it is what the call of the configured client comes to: the
\* verdict parsed from the reply, or "error" when the call raises (the
\* service is down, the reply does not come in time).  Nothing catches it.
CallAiModeration_FallbackOnError(d, author_id, oracle, spam) ==
    IF oracle \in {"none", "error"} THEN RuleBasedFallback(d, author_id, spam)
    ELSE oracle

CallAiModeration(d, author_id, oracle, spam) ==
    IF oracle = "none" THEN RuleBasedFallback(d, author_id, spam)
    ELSE oracle

CreateChallengeOn_FeeBeforeChecks(d, at, challenger_id, content_type, content_id, oracle) ==
    IF challenger_id \notin Users THEN Raised(d, "400")
    ELSE LET fee == ApplyK(BASE_CHALLENGE_FEE, d.user_scores[challenger_id].trust_score)
         IN Raised(Charge(d, challenger_id, fee, "challenge_fee", "challenge", NoRef).db,
                   "400")

\* create_challenge (the service under the route; ChallengeError is HTTP 400).
\* An exception of the moderation call leaves the service as it is (HTTP 500).
CreateChallengeOn(d, at, challenger_id, content_type, content_id, oracle) ==
    IF challenger_id \notin Users THEN Raised(d, "400")
    ELSE IF content_type = "post" /\ content_id \notin 1 .. Len(d.posts)
    THEN Raised(d, "400")
    ELSE IF content_type = "post" /\ d.posts[content_id].status # "active"
    THEN Raised(d, "400")
    ELSE IF content_type = "comment" /\ ~CommentExists(d, content_id)
    THEN Raised(d, "400") ELSE
    LET content == IF content_type = "post" THEN d.posts[content_id]
                   ELSE d.comments[content_id]
        author_id == content.author_id
        fee == ApplyK(BASE_CHALLENGE_FEE, d.user_scores[challenger_id].trust_score)
        Challenge(verdict) ==
            [id |-> NextId(d.challenges), content_type |-> content_type,
             content_id |-> content_id, challenger_id |-> challenger_id,
             author_id |-> author_id, fee_paid |-> fee, status |-> verdict]
        \* Lines 126-130: settle by the verdict.
        Judge(d2, verdict) ==
            IF verdict = "guilty"
            THEN SettleGuilty(d2, Challenge(verdict), content.cost_paid)
            ELSE SettleNotGuilty(d2, Challenge(verdict))
        \* Lines 107-124: the challenge row.
        Record(d1, verdict) ==
            IF verdict = "error" THEN Raised(d1, "500")
            ELSE Done(Judge([d1 EXCEPT !.challenges = @ \cup {Challenge(verdict)}],
                            verdict))
        \* Lines 96-102: the verdict.
        AfterFee(c1) ==
            IF c1.result = "InsufficientBalance" THEN Raised(c1.db, "400")
            ELSE IF c1.result # "ok" THEN Raised(c1.db, c1.result)
            ELSE Record(c1.db, CallAiModeration(c1.db, author_id, oracle,
                                                HasSpamKeyword(content_type, content_id)))
    IN
    IF challenger_id = author_id THEN Raised(d, "400")
    ELSE IF at > content.created_at + CHALLENGE_WINDOW_DAYS THEN Raised(d, "400")
    ELSE IF \E c \in d.challenges :
                /\ c.content_type = content_type /\ c.content_id = content_id
                /\ c.status # "not_guilty"
    THEN Raised(d, "400")
    ELSE AfterFee(Charge(d, challenger_id, fee, "challenge_fee", "challenge", NoRef))

-----------------------------------------------------------------------------
(* DiscoveryService: settlement *)

EMISSION_PER_DAU == 300

\* The batch query of settle_mature_posts: active posts created at or before
\* the cutoff that have no settled PostReward.
MaturedUnsettled_IgnoreRewards(d, before) ==
    {p \in 1 .. Len(d.posts) :
        /\ d.posts[p].created_at <= before
        /\ d.posts[p].status = "active"}

MaturedUnsettled_IgnoreCutoff(d, before) ==
    {p \in 1 .. Len(d.posts) :
        /\ d.posts[p].status = "active"
        /\ ~\E r \in d.post_rewards : r.post_id = p /\ r.status = "settled"}

MaturedUnsettled_IgnoreStatus(d, before) ==
    {p \in 1 .. Len(d.posts) :
        /\ d.posts[p].created_at <= before
        /\ ~\E r \in d.post_rewards : r.post_id = p /\ r.status = "settled"}

MaturedUnsettled(d, before) ==
    {p \in 1 .. Len(d.posts) :
        /\ d.posts[p].created_at <= before
        /\ d.posts[p].status = "active"
        /\ ~\E r \in d.post_rewards : r.post_id = p /\ r.status = "settled"}

\* _calculate_pool
CalculatePool(d, batch) ==
    LET post_fees == SumOver(batch, [p \in batch |-> d.posts[p].cost_paid])
        of_batch == {c \in 1 .. Len(d.comments) :
                        ~d.comments[c].deleted /\ d.comments[c].post_id \in batch}
        comment_fees == SumOver(of_batch, [c \in of_batch |-> d.comments[c].cost_paid])
        like_count == Cardinality({l \in d.post_likes : l[1] \in batch})
        comment_like_count == Cardinality({l \in d.comment_likes : l[1] \in of_batch})
        fees_total == post_fees + comment_fees + like_count * 10 + comment_like_count * 5
        unique_authors == Cardinality({d.posts[p].author_id : p \in batch})
    IN fees_total + EMISSION_PER_DAU * Max(unique_authors, 1)

\* Lines 173-201: the batch, its Discovery Scores and the pool.
ReadBatch(d, at, before) ==
    LET Scored(batch, scores) ==
            [batch |-> batch,
             scores |-> scores,
             total_scores |-> SumOver(batch, scores),
             pool_amount |-> IF batch = {} THEN 0 ELSE CalculatePool(d, batch)]
        Batch(batch) == Scored(batch, [p \in batch |-> CalculatePostScore(d, at, p)])
    IN Batch(MaturedUnsettled(d, before))

\* A unique index refuses a second row with the same key.
UniqueViolation_Never(keys, key) == FALSE

UniqueViolation(keys, key) == key \in keys

\* Lines 203-218: get or create the RewardPool of the settlement date.
OpenPool(d, plan, before, new_id) ==
    IF \E r \in d.reward_pools : r.settle_date = before
    THEN LET pool == CHOOSE r \in d.reward_pools : r.settle_date = before
         IN [pool_id |-> pool.id,
             db |-> [d EXCEPT !.reward_pools = (@ \ {pool}) \cup
                        {[pool EXCEPT !.total_pool = @ + plan.pool_amount,
                                      !.post_count = @ + Cardinality(plan.batch)]}]]
    ELSE [pool_id |-> new_id,
          db |-> [d EXCEPT !.reward_pools = @ \cup
                     {[id |-> new_id, settle_date |-> before,
                       total_pool |-> plan.pool_amount,
                       post_count |-> Cardinality(plan.batch),
                       total_distributed |-> 0, status |-> "pending"]}]]

\* A share that is rounded up instead of truncated.
RewardShare_RoundUp(score, total_scores, pool_amount) ==
    (score * pool_amount + total_scores - 1) \div total_scores

\* int((score / total_scores) * pool_amount)
RewardShare(score, total_scores, pool_amount) ==
    (score * pool_amount) \div total_scores

\* int(post_reward_amount * AUTHOR_SHARE), AUTHOR_SHARE = 0.8
AuthorShare(post_reward_amount) == (post_reward_amount * 4) \div 5

\* The paying loop of _settle_comments over the comments still to do.
RECURSIVE PayComments(_, _, _, _, _, _)
PayComments(d, todo, cscore, total_cscore, post_reward_id, pool_amount) ==
    IF todo = <<>> THEN [result |-> "ok", db |-> d, distributed |-> 0]
    ELSE
    LET c == Head(todo)
        reward == RewardShare(cscore[c], total_cscore, pool_amount)
        Add(rest) == [rest EXCEPT !.distributed = @ + reward]
        AfterPay(paid) ==
            IF paid.result # "ok"
            THEN [result |-> paid.result, db |-> paid.db, distributed |-> 0]
            ELSE Add(PayComments(paid.db, Tail(todo), cscore, total_cscore,
                                 post_reward_id, pool_amount))
    IN
    IF cscore[c] <= 0 \/ reward <= 0
    THEN PayComments(d, Tail(todo), cscore, total_cscore, post_reward_id, pool_amount)
    ELSE IF UniqueViolation({r.comment_id : r \in d.comment_rewards}, c)
    THEN [result |-> "IntegrityError", db |-> d, distributed |-> 0]
    ELSE AfterPay(Pay([d EXCEPT !.comment_rewards = @ \cup
                          {[comment_id |-> c, post_reward_id |-> post_reward_id,
                            discovery_score |-> cscore[c], reward_amount |-> reward]}],
                      d.comments[c].author_id, reward, "reward_comment", "comment", c))

\* _settle_comments: the comment pool goes to the post's top-level comments
\* by comment Discovery Score.
SettleComments(d, at, post_id, post_reward_id, pool_amount) ==
    LET Result(paid, total_cscore) ==
            [result |-> paid.result, db |-> paid.db,
             distributed |-> paid.distributed, total_cscore |-> total_cscore]
        Share(cs, cscore, total_cscore) ==
            IF cs = {} \/ total_cscore = 0
            THEN [result |-> "ok", db |-> d, distributed |-> 0, total_cscore |-> 0]
            ELSE Result(PayComments(d, Ascending(cs), cscore, total_cscore,
                                    post_reward_id, pool_amount),
                        total_cscore)
        Total(cs, cscore) == Share(cs, cscore, SumOver(cs, cscore))
        Score(cs) == Total(cs, [c \in cs |-> CalculateCommentScore(d, at, c)])
    IN Score({c \in 1 .. Len(d.comments) :
                 /\ ~d.comments[c].deleted
                 /\ d.comments[c].post_id = post_id
                 /\ d.comments[c].parent_id = NoRef})

\* Lines 224-272, one iteration: record the PostReward, pay the author, hand
\* the rest to the comments.
SettlePost(d, at, plan, pool_id, new_id, p) ==
    LET score == plan.scores[p]
        post_reward_amount ==
            IF plan.total_scores > 0 /\ score > 0
            THEN RewardShare(score, plan.total_scores, plan.pool_amount)
            ELSE 0
        author_reward == AuthorShare(post_reward_amount)
        comment_pool_amount == post_reward_amount - author_reward
        author_id == d.posts[p].author_id
        Failed(c) == [result |-> c.result, db |-> c.db, distributed |-> 0,
                      posts |-> {}]
        \* Lines 266-272
        AfterComments(c3) ==
            IF c3.result # "ok" THEN Failed(c3)
            ELSE [result |-> "ok", db |-> c3.db,
                  distributed |-> (IF author_reward > 0 THEN author_reward ELSE 0)
                                      + c3.distributed,
                  posts |-> {[post_id |-> p, author_id |-> author_id,
                              discovery_score |-> score,
                              author_reward |-> author_reward,
                              comment_pool |-> comment_pool_amount,
                              total_cscore |-> c3.total_cscore]}]
        \* Lines 259-264
        AfterAuthor(c2) ==
            IF c2.result # "ok" THEN Failed(c2)
            ELSE AfterComments(
                     IF comment_pool_amount > 0
                     THEN SettleComments(c2.db, at, p, new_id, comment_pool_amount)
                     ELSE [result |-> "ok", db |-> c2.db, distributed |-> 0,
                           total_cscore |-> 0])
        \* Lines 249-257
        AfterInsert(d1) ==
            AfterAuthor(IF author_reward > 0
                        THEN Pay(d1, author_id, author_reward, "reward_post", "post", p)
                        ELSE Done(d1))
    IN \* Lines 236-247
       IF UniqueViolation({r.post_id : r \in d.post_rewards}, p)
       THEN Failed([result |-> "IntegrityError", db |-> d])
       ELSE AfterInsert(
                [d EXCEPT !.post_rewards = @ \cup
                    {[id |-> new_id, post_id |-> p, pool_id |-> pool_id,
                      discovery_score |-> score, author_reward |-> author_reward,
                      comment_pool |-> comment_pool_amount, status |-> "settled"]}])

\* The loop of lines 224-272: an exception leaves it at once.
RECURSIVE SettlePosts(_, _, _, _, _)
SettlePosts(d, at, plan, pool_id, todo) ==
    IF todo = <<>>
    THEN [result |-> "ok", db |-> d, distributed |-> 0, posts |-> {}]
    ELSE LET Add(one, rest) ==
                 [rest EXCEPT !.distributed = @ + one.distributed,
                              !.posts = @ \cup one.posts]
             AfterOne(one) ==
                 IF one.result # "ok" THEN one
                 ELSE Add(one, SettlePosts(one.db, at, plan, pool_id, Tail(todo)))
         IN AfterOne(SettlePost(d, at, plan, pool_id, NextId(d.post_rewards),
                                Head(todo)))

\* score_values[max(0, len(score_values) // 10)] of the scores sorted
\* descending.
Top10Threshold(plan) ==
    LET k == Cardinality(plan.batch) \div 10
    IN CHOOSE v \in {plan.scores[p] : p \in plan.batch} :
           /\ Cardinality({p \in plan.batch : plan.scores[p] > v}) <= k
           /\ k < Cardinality({p \in plan.batch : plan.scores[p] >= v})

RECURSIVE UpdateCurators(_, _)
UpdateCurators(scores, todo) ==
    IF todo = <<>> THEN scores
    ELSE UpdateCurators(UpdateCurator(scores, Head(todo), 1), Tail(todo))

\* Lines 281-302, one iteration: the trust deltas a settled post brings.
TrustForPost(d, scores, plan, p) ==
    LET score == plan.scores[p]
        author_id == d.posts[p].author_id
        \* Lines 295-302
        Curators(s2) ==
            IF score > 0 THEN UpdateCurators(s2, Ascending(PostLikers(d, p))) ELSE s2
        \* Lines 290-293
        Top(s1, threshold) ==
            Curators(IF score >= threshold /\ threshold > 0
                     THEN UpdateCreator(s1, author_id,
                                        Min(15, Max(5, score \div ScoreScale)))
                     ELSE s1)
    IN \* Lines 283-288
       Top(IF score > 0 THEN UpdateCreator(scores, author_id, 3)
           ELSE UpdateCreator(scores, author_id, -1),
           Top10Threshold(plan))

RECURSIVE TrustUpdates(_, _, _, _)
TrustUpdates(d, scores, plan, todo) ==
    IF todo = <<>> THEN scores
    ELSE TrustUpdates(d, TrustForPost(d, scores, plan, Head(todo)), plan, Tail(todo))

\* Lines 304-306
ClosePool(d, pool_id, total_distributed) ==
    [d EXCEPT !.reward_pools =
        {IF r.id = pool_id
         THEN [r EXCEPT !.total_distributed = total_distributed,
                        !.status = "settled"]
         ELSE r : r \in @}]

\* What settle_mature_posts returns when it returns.
Summary(result, d, before, plan, total_distributed, settled) ==
    [result |-> result, db |-> d, settle_date |-> before,
     posts_settled |-> IF result = "ok" THEN Cardinality(plan.batch) ELSE 0,
     pool |-> plan.pool_amount, total_distributed |-> total_distributed,
     total_scores |-> plan.total_scores, posts |-> settled]

\* settle_mature_posts, start to return, on the database d at time at.
SettleMaturePostsOn(d, at, before) ==
    LET \* Lines 274-315
        AfterLoop(plan, pool_id, loop) ==
            IF loop.result # "ok"
            THEN Summary(loop.result, loop.db, before, plan, 0, {})
            ELSE Summary("ok",
                         ClosePool([loop.db EXCEPT !.user_scores =
                                       TrustUpdates(loop.db, @, plan,
                                                    Ascending(plan.batch))],
                                   pool_id, loop.distributed),
                         before, plan, loop.distributed, loop.posts)
        \* Lines 220-272
        AfterPool(plan, opened) ==
            AfterLoop(plan, opened.pool_id,
                      SettlePosts(opened.db, at, plan, opened.pool_id,
                                  Ascending(plan.batch)))
        \* Lines 190-218
        AfterRead(plan) ==
            IF plan.batch = {} THEN Summary("ok", d, before, plan, 0, {})
            ELSE AfterPool(plan, OpenPool(d, plan, before, NextId(d.reward_pools)))
    IN AfterRead(ReadBatch(d, at, before))

-----------------------------------------------------------------------------
(* The ledger on its own: seeded accounts, then spend and earn calls *)

NoOp == [kind |-> "none", user |-> 0, amount |-> 0, result |-> "none"]

NoTx == <<>>

InitLedger ==
    \E deposit \in [Users -> {0, MaxAmount}] :
        /\ db = SeededDb(deposit)
        /\ now = 0
        /\ op = NoOp
        /\ tx = NoTx

\* One call of LedgerService.spend: the session is left as the service left it.
SpendCall(user_id, amount) ==
    /\ Len(ledger) < MaxLedger
    /\ LET r == LedgerSpend(available_balance, ledger, user_id, amount,
                            "withdraw", "none", NoRef) IN
       /\ db' = [db EXCEPT !.available_balance = r.balance, !.ledger = r.ledger]
       /\ op' = [kind |-> "spend", user |-> user_id, amount |-> amount,
                 result |-> r.result]
    /\ UNCHANGED <<now, tx>>

EarnCall(user_id, amount) ==
    /\ Len(ledger) < MaxLedger
    /\ LET r == LedgerEarn(available_balance, ledger, user_id, amount,
                           "deposit", "none", NoRef) IN
       /\ db' = [db EXCEPT !.available_balance = r.balance, !.ledger = r.ledger]
       /\ op' = [kind |-> "earn", user |-> user_id, amount |-> amount,
                 result |-> r.result]
    /\ UNCHANGED <<now, tx>>

Amounts == (-1) .. MaxAmount

NextLedger ==
    \/ \E u \in UserIds, a \in Amounts : SpendCall(u, a)
    \/ \E u \in UserIds, a \in Amounts : EarnCall(u, a)

SpecLedger == InitLedger /\ [][NextLedger]_vars

-----------------------------------------------------------------------------
(* Concurrent spend requests.                                              *)
(* Each request has its own session; spend is split at its database        *)
(* statements.  db.get is a SELECT of the committed row; the flush is an   *)
(* UPDATE of users that sets the balance computed in Python (it waits      *)
(* while another session holds the row with an uncommitted UPDATE) and an  *)
(* INSERT into ledger; COMMIT publishes both and releases the row.         *)

Requests == {1, 2}

IdleTx == [pc |-> "idle", user_id |-> 0, amount |-> 0, balance |-> 0,
           result |-> "none"]

InitSpendRace ==
    /\ db = [EmptyDb EXCEPT !.available_balance = [u \in Users |-> 150]]
    /\ now = 0
    /\ op = NoOp
    /\ tx = [r \in Requests |-> IdleTx]

\* A request arrives: spend(user_id, amount), amount > 0 (line 35 passes).
RaceBegin(r, user_id, amount) ==
    /\ tx[r].pc = "idle"
    /\ amount > 0
    /\ tx' = [tx EXCEPT ![r] = [IdleTx EXCEPT !.pc = "begun",
                                              !.user_id = user_id,
                                              !.amount = amount]]
    /\ UNCHANGED <<db, now, op>>

\* user = await self.db.get(User, user_id)
RaceRead(r) ==
    /\ tx[r].pc = "begun"
    /\ tx' = [tx EXCEPT ![r].pc = "read",
                        ![r].balance = available_balance[tx[r].user_id]]
    /\ UNCHANGED <<db, now, op>>

\* if user.available_balance < amount: raise; user.available_balance -= amount
RaceCheck(r) ==
    /\ tx[r].pc = "read"
    /\ tx' = IF tx[r].balance < tx[r].amount
             THEN [tx EXCEPT ![r].pc = "done",
                             ![r].result = "InsufficientBalance"]
             ELSE [tx EXCEPT ![r].pc = "checked",
                             ![r].balance = tx[r].balance - tx[r].amount]
    /\ UNCHANGED <<db, now, op>>

RowLocked(user_id, r) ==
    \E q \in Requests \ {r} : tx[q].pc = "flushed" /\ tx[q].user_id = user_id

\* self.db.add(entry); await self.db.flush()
RaceFlush(r) ==
    /\ tx[r].pc = "checked"
    /\ ~RowLocked(tx[r].user_id, r)
    /\ tx' = [tx EXCEPT ![r].pc = "flushed"]
    /\ UNCHANGED <<db, now, op>>

\* The request returns and its session commits.
RaceCommit(r) ==
    /\ tx[r].pc = "flushed"
    /\ db' = [db EXCEPT
                !.available_balance[tx[r].user_id] = tx[r].balance,
                !.ledger = Append(@, Entry(tx[r].user_id, -tx[r].amount,
                                           tx[r].balance, "withdraw", "none", NoRef))]
    /\ tx' = [tx EXCEPT ![r].pc = "done", ![r].result = "ok"]
    /\ UNCHANGED <<now, op>>

NextSpendRace ==
    \/ \E r \in Requests, u \in {1, 2}, a \in {100, 150} : RaceBegin(r, u, a)
    \/ \E r \in Requests : RaceRead(r)
    \/ \E r \in Requests : RaceCheck(r)
    \/ \E r \in Requests : RaceFlush(r)
    \/ \E r \in Requests : RaceCommit(r)

SpecSpendRace == InitSpendRace /\ [][NextSpendRace]_vars

-----------------------------------------------------------------------------
(* The API, one request at a time *)

\* get_db: commit what the handler left if it returned, roll back if it raised.
Respond(kind, user_id, r) ==
    /\ db' = IF r.result = "ok" THEN r.db ELSE db
    /\ op' = [kind |-> kind, user |-> user_id, amount |-> 0, result |-> r.result]
    /\ UNCHANGED <<now, tx>>

CreatePost(author_id, post_type, bounty) ==
    /\ Len(posts) < MaxPosts
    /\ Len(ledger) < MaxEntries
    /\ Respond("create_post", author_id,
               CreatePostOn(db, now, author_id, post_type, bounty))

CreateComment(post_id, author_id, parent_id) ==
    /\ Len(ledger) < MaxEntries
    /\ Respond("create_comment", author_id,
               CreateCommentOn(db, now, post_id, author_id, parent_id))

LikePost(post_id, user_id) ==
    /\ Len(ledger) < MaxEntries
    /\ Respond("like_post", user_id, LikePostOn(db, now, post_id, user_id))

LikeComment(post_id, comment_id, user_id) ==
    /\ Len(ledger) < MaxEntries
    /\ Respond("like_comment", user_id,
               LikeCommentOn(db, now, post_id, comment_id, user_id))

Follow(user_id, follower_id) ==
    /\ Cardinality(follows) < MaxFollows
    /\ Respond("follow", follower_id, FollowOn(db, user_id, follower_id))

CreateChallenge(challenger_id, content_type, content_id, verdict) ==
    /\ Len(ledger) < MaxEntries
    /\ Respond("create_challenge", challenger_id,
               CreateChallengeOn(db, now, challenger_id, content_type, content_id,
                                 verdict))

\* The summary of the last settlement run, as the caller gets it.
SettleOp(s) ==
    [kind |-> "settle", user |-> 0, amount |-> 0, result |-> s.result,
     before |-> s.settle_date, posts_settled |-> s.posts_settled,
     pool |-> s.pool, total_distributed |-> s.total_distributed,
     total_scores |-> s.total_scores, posts |-> s.posts]

\* run_settlement (POST /settle?days_ago=N) and the worker's daily job
\* (days_ago = 7): settle_mature_posts, then commit; an exception rolls the
\* session back.
Settle(days_ago) ==
    LET Returned(s) ==
            /\ db' = IF s.result = "ok" THEN s.db ELSE db
            /\ op' = SettleOp(s)
    IN /\ Returned(SettleMaturePostsOn(db, now, now - days_ago))
       /\ UNCHANGED <<now, tx>>

\* A week passes.
AdvanceWeek ==
    /\ now + 7 <= MaxDay
    /\ now' = now + 7
    /\ UNCHANGED <<db, op, tx>>

\* Two seeded accounts (seed.py) and one opened through POST /users.
InitApi ==
    /\ db = SeededDb([u \in Users |-> IF u = 3 THEN 0 ELSE 50000])
    /\ now = 0
    /\ op = NoOp
    /\ tx = NoTx

PostIds == 1 .. MaxPosts

CommentIds == 1 .. 2

Next ==
    \/ \E u \in Users, t \in {"note", "question"}, b \in {0, 100} : CreatePost(u, t, b)
    \/ \E p \in PostIds, u \in Users, c \in {NoRef} \cup CommentIds :
           CreateComment(p, u, c)
    \/ \E p \in PostIds, u \in Users : LikePost(p, u)
    \/ \E p \in PostIds, c \in CommentIds, u \in Users : LikeComment(p, c, u)
    \/ \E u, f \in Users : Follow(u, f)
    \/ \E u \in Users, t \in {"post", "comment"}, c \in PostIds,
          v \in {"guilty", "not_guilty"} : CreateChallenge(u, t, c, v)
    \/ \E n \in {0, 7} : Settle(n)
    \/ AdvanceWeek

Spec == InitApi /\ [][Next]_vars

-----------------------------------------------------------------------------
(* Settlement over a populated database *)

Call(kind, user_id, post_id, comment_id) ==
    [kind |-> kind, user |-> user_id, post |-> post_id, comment |-> comment_id]

\* One request against the API: the database it leaves committed.
ApplyCall(d, at, call) ==
    LET Committed(r) == IF r.result = "ok" THEN r.db ELSE d
    IN Committed(
           CASE call.kind = "post" -> CreatePostOn(d, at, call.user, "note", 0)
             [] call.kind = "comment" ->
                    CreateCommentOn(d, at, call.post, call.user, NoRef)
             [] call.kind = "like" -> LikePostOn(d, at, call.post, call.user)
             [] call.kind = "like_comment" ->
                    LikeCommentOn(d, at, call.post, call.comment, call.user)
             [] call.kind = "follow" -> FollowOn(d, call.post, call.user)
             [] call.kind = "challenge" ->
                    CreateChallengeOn(d, at, call.user, "post", call.post, "guilty"))

RECURSIVE Replay(_, _, _)
Replay(d, at, calls) ==
    IF calls = <<>> THEN d
    ELSE LET next == ApplyCall(d, at, Head(calls))
         IN \* each request is over before the next one begins
            IF next = d THEN Replay(d, at, Tail(calls))
            ELSE Replay(next, at, Tail(calls))

\* One call of the given kind for each user of the set, in id order.
CallsBy(kind, users, post_id, comment_id) ==
    LET us == Ascending(users)
    IN [i \in 1 .. Len(us) |-> Call(kind, us[i], post_id, comment_id)]

\* The database after the seeded users (50,000 sat each) have made these
\* requests: user 1 writes post 1; the followers follow user 1; the commenters
\* comment on post 1 (comment i by commenters[i]) and the comments and post 1
\* are liked; author2 writes post 2 on day day2 and it is liked.
Populated(followers, commenters, clikers, likers1, author2, day2, likers2) ==
    LET first == <<Call("post", 1, 0, 0)>>
                 \o CallsBy("follow", followers, 1, 0)
                 \o [i \in 1 .. Len(commenters) |-> Call("comment", commenters[i], 1, 0)]
                 \o (IF Len(commenters) >= 1
                     THEN CallsBy("like_comment", clikers[1], 1, 1) ELSE <<>>)
                 \o (IF Len(commenters) >= 2
                     THEN CallsBy("like_comment", clikers[2], 1, 2) ELSE <<>>)
                 \o CallsBy("like", likers1, 1, 0)
        second == <<Call("post", author2, 0, 0)>> \o CallsBy("like", likers2, 2, 0)
    IN Replay(Replay(SeededDb([u \in Users |-> 50000]), 0, first), day2, second)

InitSettle ==
    \E followers \in {{}, {2}, {3}},
       commenters \in {<<>>, <<2>>, <<2, 3>>},
       clikers \in [{1, 2} -> {{}, {1}, {3}, {1, 3}}],
       likers1 \in SUBSET {2, 3},
       author2 \in {1, 2},
       day2 \in {0, 7},
       likers2 \in SUBSET {1, 3} :
        /\ db = Populated(followers, commenters, clikers, likers1,
                          author2, day2, likers2)
        /\ now = day2
        /\ op = NoOp
        /\ tx = NoTx

NextSettle ==
    \/ \E n \in {0, 7} : Settle(n)
    \/ AdvanceWeek

SpecSettle == InitSettle /\ [][NextSettle]_vars

-----------------------------------------------------------------------------
(* Settlement of a batch of up to MaxBatch posts *)

\* The database after the seeded users have made these requests on day 0:
\* user 1 writes post 1, user 2 writes post 2, author_rest writes posts 3 .. n;
\* posts 1 and 2 are liked.
PopulatedBatch(n, likers1, likers2, author_rest) ==
    Replay(SeededDb([u \in Users |-> 50000]), 0,
           <<Call("post", 1, 0, 0), Call("post", 2, 0, 0)>>
               \o [i \in 1 .. n - 2 |-> Call("post", author_rest, 0, 0)]
               \o CallsBy("like", likers1, 1, 0)
               \o CallsBy("like", likers2, 2, 0))

InitBatch ==
    \E n \in 2 .. MaxBatch,
       likers1 \in SUBSET {2, 3},
       likers2 \in SUBSET {1, 3},
       author_rest \in Users :
        /\ db = PopulatedBatch(n, likers1, likers2, author_rest)
        /\ now = 0
        /\ op = NoOp
        /\ tx = NoTx

NextBatch == \E n \in {0, 7} : Settle(n)

SpecBatch == InitBatch /\ [][NextBatch]_vars

-----------------------------------------------------------------------------
(* Concurrent settlement runs.                                              *)
(* A run (the worker's daily job or a POST /settle request) has its own     *)
(* session and is split at its database statements.  Its SELECTs see what   *)
(* is committed plus its own writes; the User rows it loaded with the batch *)
(* stay as loaded.  An INSERT into a unique index waits while another       *)
(* session holds an uncommitted row with the same key and fails with        *)
(* IntegrityError once such a row is committed; an UPDATE of a users row    *)
(* waits while another session holds that row.  An exception leaves         *)
(* settle_mature_posts and the session is rolled back.                      *)

Runs == {1, 2}

EmptyPlan == [batch |-> {}, scores |-> <<>>, total_scores |-> 0, pool_amount |-> 0]

\* What a session has written and not committed.
NoWrites == [dirty |-> {}, entries |-> <<>>, post_rewards |-> {},
             comment_rewards |-> {}, pools |-> {}]

IdleRun ==
    [pc |-> "idle", before |-> 0, plan |-> EmptyPlan, pool_found |-> FALSE,
     pool_id |-> 0, todo |-> <<>>, distributed |-> 0, failed_post |-> NoRef,
     result |-> "none",
     balance |-> [u \in Users |-> 0], scores |-> [u \in Users |-> NewScores],
     writes |-> NoWrites]

\* The phases between reading the batch and the commit.
ActivePhases == {"pool", "posts", "trust", "commit"}

\* The database as the session of run r sees it.
View(r) ==
    [db EXCEPT !.available_balance = tx[r].balance,
               !.user_scores = tx[r].scores,
               !.ledger = @ \o tx[r].writes.entries,
               !.post_rewards = @ \cup tx[r].writes.post_rewards,
               !.comment_rewards = @ \cup tx[r].writes.comment_rewards,
               !.reward_pools =
                   {x \in @ : x.id \notin {y.id : y \in tx[r].writes.pools}}
                       \cup tx[r].writes.pools]

\* The session of run r after statements that left its view as d.
Absorb(r, d) ==
    [tx[r] EXCEPT
        !.balance = d.available_balance,
        !.scores = d.user_scores,
        !.writes = [dirty |-> @.dirty \cup
                        {u \in Users : \/ d.available_balance[u] # tx[r].balance[u]
                                       \/ d.user_scores[u] # tx[r].scores[u]},
                    entries |-> SubSeq(d.ledger, Len(db.ledger) + 1, Len(d.ledger)),
                    post_rewards |-> d.post_rewards \ db.post_rewards,
                    comment_rewards |-> d.comment_rewards \ db.comment_rewards,
                    pools |-> d.reward_pools \ db.reward_pools]]

\* The exception leaves the run; the session is rolled back.
Aborted(r, error, post_id) ==
    [tx[r] EXCEPT !.pc = "aborted", !.result = error, !.failed_post = post_id,
                  !.writes = NoWrites]

Others(r) == {q \in Runs \ {r} : tx[q].pc \in ActivePhases}

\* The id sequences are shared by the sessions.
NewPostRewardId ==
    NextId(db.post_rewards \cup UNION {tx[q].writes.post_rewards : q \in Runs})

NewPoolId ==
    NextId(db.reward_pools \cup UNION {tx[q].writes.pools : q \in Runs})

\* Lines 163-208: the batch query, the scores, the pool amount and the SELECT
\* of the RewardPool; an empty batch returns at once.
RunStart(r, days_ago) ==
    /\ tx[r].pc \in {"idle", "done", "aborted"}
    /\ LET Read(before, plan) ==
               [IdleRun EXCEPT
                   !.pc = IF plan.batch = {} THEN "done" ELSE "pool",
                   !.result = IF plan.batch = {} THEN "ok" ELSE "none",
                   !.before = before,
                   !.plan = plan,
                   !.pool_found = \E x \in db.reward_pools : x.settle_date = before,
                   !.todo = Ascending(plan.batch),
                   !.balance = db.available_balance,
                   !.scores = db.user_scores]
       IN tx' = [tx EXCEPT ![r] = Read(now - days_ago,
                                       ReadBatch(db, now, now - days_ago))]
    /\ UNCHANGED <<db, now, op>>

\* Lines 209-218: INSERT the RewardPool, or add to the one found.
RunOpenPool(r) ==
    /\ tx[r].pc = "pool"
    /\ ~\E q \in Others(r) :
           UniqueViolation({x.settle_date : x \in tx[q].writes.pools}, tx[r].before)
    /\ LET Opened(opened) ==
               [Absorb(r, opened.db) EXCEPT !.pc = "posts",
                                            !.pool_id = opened.pool_id]
       IN tx' = [tx EXCEPT ![r] =
                    IF ~tx[r].pool_found
                       /\ UniqueViolation({x.settle_date : x \in db.reward_pools},
                                          tx[r].before)
                    THEN Aborted(r, "IntegrityError", NoRef)
                    ELSE Opened(OpenPool(View(r), tx[r].plan, tx[r].before, NewPoolId))]
    /\ UNCHANGED <<db, now, op>>

\* Lines 224-272, one iteration of the loop.
RunSettlePost(r) ==
    /\ tx[r].pc = "posts"
    /\ LET p == Head(tx[r].todo)
           Waits(one) ==
               \E q \in Others(r) :
                   \/ UniqueViolation({x.post_id : x \in tx[q].writes.post_rewards}, p)
                   \/ {u \in Users : one.db.available_balance[u] # tx[r].balance[u]}
                          \cap tx[q].writes.dirty # {}
           Settled(one) ==
               /\ ~Waits(one)
               /\ tx' = [tx EXCEPT ![r] =
                            IF one.result # "ok" THEN Aborted(r, one.result, p)
                            ELSE [Absorb(r, one.db) EXCEPT
                                     !.todo = Tail(@),
                                     !.distributed = @ + one.distributed,
                                     !.pc = IF Tail(tx[r].todo) = <<>> THEN "trust"
                                            ELSE "posts"]]
       IN Settled(SettlePost(View(r), now, tx[r].plan, tx[r].pool_id,
                             NewPostRewardId, p))
    /\ UNCHANGED <<db, now, op>>

\* Lines 274-306: the trust deltas and the pool's totals.
RunFinish(r) ==
    /\ tx[r].pc = "trust"
    /\ LET Closed(d) ==
               ClosePool([d EXCEPT !.user_scores =
                             TrustUpdates(d, @, tx[r].plan,
                                          Ascending(tx[r].plan.batch))],
                         tx[r].pool_id, tx[r].distributed)
       IN tx' = [tx EXCEPT ![r] = [Absorb(r, Closed(View(r))) EXCEPT !.pc = "commit"]]
    /\ UNCHANGED <<db, now, op>>

\* await db.commit(): the writes of the session become the committed rows.
RunCommit(r) ==
    /\ tx[r].pc = "commit"
    /\ LET w == tx[r].writes IN
       db' = [db EXCEPT
                !.available_balance =
                    [u \in Users |-> IF u \in w.dirty THEN tx[r].balance[u] ELSE @[u]],
                !.user_scores =
                    [u \in Users |-> IF u \in w.dirty THEN tx[r].scores[u] ELSE @[u]],
                !.ledger = @ \o w.entries,
                !.post_rewards = @ \cup w.post_rewards,
                !.comment_rewards = @ \cup w.comment_rewards,
                !.reward_pools =
                    {x \in @ : x.id \notin {y.id : y \in w.pools}} \cup w.pools]
    /\ tx' = [tx EXCEPT ![r].pc = "done", ![r].result = "ok", ![r].writes = NoWrites]
    /\ UNCHANGED <<now, op>>

\* Day 7: post 1 is seven days old, post 2 is seven days old or new.
InitSettleRace ==
    \E commenters \in {<<>>, <<2>>},
       clikers \in [{1, 2} -> {{3}}],
       likers1 \in SUBSET {2, 3},
       author2 \in {1, 2},
       day2 \in {0, 7},
       likers2 \in SUBSET {3} :
        /\ db = Populated({}, commenters, clikers, likers1, author2, day2, likers2)
        /\ now = 7
        /\ op = NoOp
        /\ tx = [r \in Runs |-> IdleRun]

NextSettleRace ==
    \/ \E r \in Runs, n \in {0, 7} : RunStart(r, n)
    \/ \E r \in Runs : RunOpenPool(r)
    \/ \E r \in Runs : RunSettlePost(r)
    \/ \E r \in Runs : RunFinish(r)
    \/ \E r \in Runs : RunCommit(r)

SpecSettleRace == InitSettleRace /\ [][NextSettleRace]_vars

-----------------------------------------------------------------------------
(* Challenges, one call at a time *)

\* The database after the seeded users have made these requests on day 0:
\* user 1 writes post 1 (free) and post 2 (paid) and comments on post 1.
ChallengeDb(deposit) ==
    Replay(SeededDb(deposit), 0,
           <<Call("post", 1, 0, 0), Call("post", 1, 0, 0), Call("comment", 1, 1, 0)>>)

\* The same after user 1 has written `strikes` more posts, each of which
\* user 2 challenged and the verdict found guilty.
WithStrikes(d, strikes) ==
    Replay(d, 0,
           [i \in 1 .. 2 * strikes |->
               IF i % 2 = 1 THEN Call("post", 1, 0, 0)
               ELSE Call("challenge", 2, 2 + i \div 2, 0)])

InitChallenge ==
    \E author_deposit \in {400, 50000}, challenger_deposit \in {100, 50000},
       strikes \in {0, 5, 9} :
        /\ db = WithStrikes(ChallengeDb([u \in Users |->
                                            IF u = 1 THEN author_deposit
                                            ELSE IF u = 3 THEN challenger_deposit
                                            ELSE 50000]),
                            IF author_deposit = 400 THEN 0 ELSE strikes)
        /\ now = 0
        /\ op = NoOp
        /\ tx = NoTx

\* The verdict of the challenge that a call has added.
VerdictIn(before, after) ==
    IF after.challenges = before.challenges THEN "none"
    ELSE (CHOOSE c \in after.challenges \ before.challenges : TRUE).status

\* One call of ChallengeService.create_challenge.  After a ChallengeError the
\* session is left as the service left it; any other exception passes the
\* route and the session is rolled back.
ChallengeCall(challenger_id, content_type, content_id, oracle) ==
    /\ Cardinality({c \in challenges : c.content_id \in 1 .. 2}) < MaxChallenges
    /\ LET Returned(r) ==
               /\ db' = IF r.result = "500" THEN db ELSE r.db
               /\ op' = [kind |-> "create_challenge", user |-> challenger_id,
                         amount |-> 0, result |-> r.result,
                         content_type |-> content_type, content_id |-> content_id,
                         oracle |-> oracle, verdict |-> VerdictIn(db, r.db)]
       IN Returned(CreateChallengeOn(db, now, challenger_id, content_type,
                                     content_id, oracle))
    /\ UNCHANGED <<now, tx>>

\* A week passes.
WeekPasses ==
    /\ now + 7 <= 7 * MaxWeeks
    /\ now' = now + 7
    /\ UNCHANGED <<db, op, tx>>

NextChallenge ==
    \/ \E u \in UserIds, t \in {"post", "comment"}, c \in 1 .. 3,
          o \in {"none", "guilty", "not_guilty", "error"} : ChallengeCall(u, t, c, o)
    \/ WeekPasses

SpecChallenge == InitChallenge /\ [][NextChallenge]_vars

-----------------------------------------------------------------------------
(* Concurrent challenge requests.                                           *)
(* Each request has its own session.  create_challenge loads the            *)
(* challenger, the content and the author and runs its checks; it charges   *)
(* the fee; it awaits the moderation verdict; it inserts the Challenge and  *)
(* settles; the session commits.  The session keeps the rows it has loaded  *)
(* (db.get returns the loaded object), its flushes write the attributes it  *)
(* changed with the values computed in Python, and an UPDATE waits while    *)
(* another session holds the row with an uncommitted UPDATE.                *)

IdleChallenge ==
    [pc |-> "idle", challenger_id |-> 0, content_type |-> "none", content_id |-> 0,
     verdict |-> "none", loaded |-> EmptyDb, after |-> EmptyDb, challenge_id |-> 0,
     result |-> "none"]

\* The new Challenge row and the entries that refer to it take the id the
\* shared sequence gave the INSERT.
Renumbered(loaded, after, new_id) ==
    LET old_id == NextId(loaded.challenges)
    IN [after EXCEPT
           !.challenges = {IF c \in loaded.challenges THEN c
                           ELSE [c EXCEPT !.id = new_id] : c \in @},
           !.ledger = [i \in 1 .. Len(@) |->
                          IF /\ i > Len(loaded.ledger)
                             /\ @[i].ref_type = "challenge" /\ @[i].ref_id = old_id
                          THEN [@[i] EXCEPT !.ref_id = new_id]
                          ELSE @[i]]]

\* COMMIT of a session that loaded its rows as in `loaded` and left them as in
\* `after`, onto the committed database d: the changed attributes, the new
\* rows and the deletions.
Committed(d, loaded, after) ==
    [d EXCEPT
        !.available_balance =
            [u \in Users |-> IF after.available_balance[u] # loaded.available_balance[u]
                             THEN after.available_balance[u] ELSE @[u]],
        !.user_scores =
            [u \in Users |->
                [f \in DOMAIN NewScores |->
                    IF after.user_scores[u][f] # loaded.user_scores[u][f]
                    THEN after.user_scores[u][f] ELSE @[u][f]]],
        !.ledger = @ \o SubSeq(after.ledger, Len(loaded.ledger) + 1, Len(after.ledger)),
        !.posts = [q \in 1 .. Len(@) |->
                      IF after.posts[q] # loaded.posts[q] THEN after.posts[q] ELSE @[q]],
        !.comments = [c \in 1 .. Len(@) |->
                         IF after.comments[c] # loaded.comments[c]
                         THEN after.comments[c] ELSE @[c]],
        !.comment_likes = @ \ (loaded.comment_likes \ after.comment_likes),
        !.comment_rewards = @ \ (loaded.comment_rewards \ after.comment_rewards),
        !.challenges = @ \cup (after.challenges \ loaded.challenges)]

InitChallengeRace ==
    \E author_deposit \in {400, 50000} :
        /\ db = ChallengeDb([u \in Users |->
                                IF u = 1 THEN author_deposit ELSE 50000])
        /\ now = 0
        /\ op = NoOp
        /\ tx = [r \in Requests |-> IdleChallenge]

\* Lines 60-80: the request arrives; the challenger, the content and the
\* author are loaded and the checks run on what is committed.
ChallengeBegin(r, challenger_id, content_type, content_id) ==
    /\ tx[r].pc = "idle"
    /\ LET Checked(c) ==
               IF c.result = "400"
               THEN [IdleChallenge EXCEPT !.pc = "done", !.result = "400"]
               ELSE [IdleChallenge EXCEPT
                        !.pc = "checked", !.challenger_id = challenger_id,
                        !.content_type = content_type, !.content_id = content_id,
                        !.loaded = db, !.after = db]
       IN tx' = [tx EXCEPT ![r] = Checked(CreateChallengeOn(db, now, challenger_id,
                                                            content_type, content_id,
                                                            "not_guilty"))]
    /\ UNCHANGED <<db, now, op>>

\* Lines 83-94: the fee is charged; the flush of spend holds the challenger's
\* row.  Lines 96-102: the moderation call is awaited.
ChallengeCharge(r) ==
    /\ tx[r].pc = "checked"
    /\ ~\E q \in Requests \ {r} :
           /\ tx[q].pc \in {"charged", "settled"}
           /\ tx[q].challenger_id = tx[r].challenger_id
    /\ tx' = [tx EXCEPT ![r].pc = "charged"]
    /\ UNCHANGED <<db, now, op>>

\* Lines 104-130: the verdict arrives, the Challenge is inserted and settled;
\* the UPDATEs of the content and the author hold their rows.
ChallengeSettle(r, verdict) ==
    /\ tx[r].pc = "charged"
    /\ ~\E q \in Requests \ {r} : tx[q].pc = "settled"
    /\ LET new_id == NextId(db.challenges \cup
                             UNION {tx[q].after.challenges : q \in Requests})
           Settled(c) ==
               [tx[r] EXCEPT !.pc = "settled", !.verdict = verdict,
                             !.challenge_id = new_id, !.result = c.result,
                             !.after = Renumbered(tx[r].loaded, c.db, new_id)]
       IN tx' = [tx EXCEPT ![r] = Settled(CreateChallengeOn(
                                              tx[r].loaded, now, tx[r].challenger_id,
                                              tx[r].content_type, tx[r].content_id,
                                              verdict))]
    /\ UNCHANGED <<db, now, op>>

\* The request returns and its session commits.
ChallengeCommit(r) ==
    /\ tx[r].pc = "settled"
    /\ db' = Committed(db, tx[r].loaded, tx[r].after)
    /\ tx' = [tx EXCEPT ![r].pc = "done"]
    /\ UNCHANGED <<now, op>>

NextChallengeRace ==
    \/ \E r \in Requests, u \in {2, 3}, t \in {"post", "comment"}, c \in {1, 2} :
           ChallengeBegin(r, u, t, c)
    \/ \E r \in Requests : ChallengeCharge(r)
    \/ \E r \in Requests, v \in {"guilty", "not_guilty"} : ChallengeSettle(r, v)
    \/ \E r \in Requests : ChallengeCommit(r)

SpecChallengeRace == InitChallengeRace /\ [][NextChallengeRace]_vars

-----------------------------------------------------------------------------
(* Properties of the ledger *)

\* The sum of the amounts of the first n ledger entries of user u.
RECURSIVE EntrySum(_, _, _)
EntrySum(led, u, n) ==
    IF n = 0 THEN 0
    ELSE EntrySum(led, u, n - 1)
         + (IF led[n].user_id = u THEN led[n].amount ELSE 0)

\* C1: after any sequence of spend and earn calls, every account's balance is
\* the sum of its ledger entries' amounts (the opening deposit included), and
\* every entry's balance_after is the account's balance just before the entry
\* plus the entry's signed amount.
C1_Conservation ==
    /\ \A u \in Users : available_balance[u] = EntrySum(ledger, u, Len(ledger))
    /\ \A i \in 1 .. Len(ledger) :
           ledger[i].balance_after
               = EntrySum(ledger, ledger[i].user_id, i - 1) + ledger[i].amount

\* C1 witness: an account that was seeded, then earned and spent.
C1_Witness ==
    \E u \in Users :
        /\ \E i \in 1 .. Len(ledger) :
               ledger[i].user_id = u /\ ledger[i].action_type = "deposit"
                   /\ ledger[i].amount = MaxAmount
        /\ \E i, j \in 1 .. Len(ledger) :
               /\ i < j
               /\ ledger[i].user_id = u /\ ledger[i].amount < 0
               /\ ledger[j].user_id = u /\ ledger[j].amount > 0
                   /\ ledger[j].action_type = "deposit" /\ j > 1

\* C2: after any sequence of spend and earn calls, no balance is negative and
\* no ledger entry records a negative balance_after.
C2_NoNegativeBalance ==
    /\ \A u \in Users : available_balance[u] >= 0
    /\ \A i \in 1 .. Len(ledger) : ledger[i].balance_after >= 0

\* C2 witness: a spend larger than the balance was refused, after a spend that
\* emptied the account went through.
C2_Witness ==
    /\ op.kind = "spend" /\ op.result = "InsufficientBalance"
    /\ available_balance[op.user] = 0
    /\ \E i \in 1 .. Len(ledger) :
           ledger[i].user_id = op.user /\ ledger[i].amount < 0
               /\ ledger[i].balance_after = 0

\* C4: a spend above the balance fails InsufficientBalance, a spend or earn of
\* a non-positive amount or on an unknown account fails with a validation
\* error, and a failed call changes no balance and appends no entry.
C4_FailureHasNoEffect ==
    [][ op'.kind \in {"spend", "earn"} =>
          /\ (op'.kind = "spend" /\ op'.user \in Users /\ op'.amount > 0
                  /\ op'.amount > available_balance[op'.user])
                 => op'.result = "InsufficientBalance"
          /\ (op'.amount <= 0 \/ op'.user \notin Users)
                 => op'.result = "ValueError"
          /\ op'.result # "ok"
                 => (available_balance' = available_balance /\ ledger' = ledger)
      ]_vars

\* C4 witness: spend on an account with balance 0 and an empty ledger failed
\* InsufficientBalance, and the ledger is still empty.
C4_Witness ==
    /\ op.kind = "spend" /\ op.result = "InsufficientBalance"
    /\ op.amount = MaxAmount
    /\ available_balance[op.user] = 0
    /\ Len(ledger) = 0

\* C3: two concurrent spend(100) calls on one account holding 150, under every
\* interleaving of their steps: exactly one succeeds, the other fails
\* InsufficientBalance, the balance ends at 50 and exactly one -100 entry exists.
C3_ConcurrentSpendsSerialized ==
    (/\ \A r \in Requests : tx[r].pc = "done" /\ tx[r].amount = 100
     /\ tx[1].user_id = tx[2].user_id)
    => /\ {tx[1].result, tx[2].result} = {"ok", "InsufficientBalance"}
       /\ available_balance[tx[1].user_id] = 50
       /\ Cardinality({i \in 1 .. Len(ledger) :
                          ledger[i].user_id = tx[1].user_id
                              /\ ledger[i].amount = -100}) = 1

-----------------------------------------------------------------------------
(* Properties of the handlers *)

-----------------------------------------------------------------------------
(* Properties of settlement *)

\* C6: when settle_mature_posts runs twice with the same cutoff and no request
\* in between (time may pass), the second run settles zero posts and changes
\* nothing: no ledger entry, no balance, no trust score, no RewardPool,
\* PostReward or CommentReward row.  (A step that leaves the clock alone is a
\* settlement run.)
C6_SecondRunIsNoOp ==
    [][ (now' = now /\ op.kind = "settle" /\ op'.kind = "settle"
             /\ op'.before = op.before)
            => (op'.result = "ok" /\ op'.posts_settled = 0 /\ db' = db) ]_vars

\* C6 witness: a run with a cutoff that an earlier run has settled and paid
\* two posts for has returned, with nothing to settle.
C6_Witness ==
    /\ op.kind = "settle" /\ op.result = "ok" /\ op.posts_settled = 0
    /\ \E r \in reward_pools :
           /\ r.settle_date = op.before /\ r.status = "settled"
           /\ r.post_count = 2 /\ r.total_distributed > 0
    /\ Cardinality(post_rewards) = 2

\* The PostReward row of a post.
RewardOf(post_id) == CHOOSE r \in post_rewards : r.post_id = post_id

RECURSIVE Gcd(_, _)
Gcd(a, b) == IF b = 0 THEN a ELSE Gcd(b, a % b)

\* floor(amount * (n1 / d1) * (n2 / d2) * (n3 / d3)), the fractions reduced first.
FloorOfShare(amount, n1, d1, n2, d2, n3, d3) ==
    LET g1 == Gcd(n1, d1)
        g2 == Gcd(n2, d2)
        g3 == Gcd(n3, d3)
    IN (amount * (n1 \div g1) * (n2 \div g2) * (n3 \div g3))
           \div ((d1 \div g1) * (d2 \div g2) * (d3 \div g3))

\* C10: every payout of a settlement run is one truncation of its exact share:
\* the author's reward is floor(0.8 * pool * score / total_scores), and a
\* comment's reward is the floor of its exact share
\* 0.2 * pool * (score / total_scores) * (cscore / total_cscore).
C10_SingleTruncation ==
    (op.kind = "settle" /\ op.result = "ok") =>
        \A e \in op.posts :
            (op.total_scores > 0 /\ e.discovery_score > 0) =>
                /\ e.author_reward
                       = FloorOfShare(op.pool, 4, 5, e.discovery_score,
                                      op.total_scores, 1, 1)
                /\ \A c \in comment_rewards :
                       c.post_reward_id = RewardOf(e.post_id).id =>
                           c.reward_amount
                               = FloorOfShare(op.pool, 1, 5, e.discovery_score,
                                              op.total_scores, c.discovery_score,
                                              e.total_cscore)

-----------------------------------------------------------------------------
(* Properties of concurrent settlement runs *)

RewardRows(post_id) == {x \in post_rewards : x.post_id = post_id}

RewardPayments(post_id) ==
    {i \in 1 .. Len(ledger) :
        ledger[i].action_type = "reward_post" /\ ledger[i].ref_id = post_id}

\* C7: after any number of settlement runs, interleaved or not, every post has
\* at most one PostReward row and at most one REWARD_POST ledger entry.
C7_NoDoublePay ==
    \A p \in 1 .. Len(posts) :
        /\ Cardinality(RewardRows(p)) <= 1
        /\ Cardinality(RewardPayments(p)) <= 1

\* C7 witness: two runs read post 1 in their batches while both were open; one
\* committed its reward, the other was refused by the unique index, and post
\* 1 has one PostReward row and one payment.
C7_Witness ==
    /\ tx[1].pc = "done" /\ tx[2].pc = "aborted"
    /\ 1 \in tx[1].plan.batch /\ tx[2].failed_post = 1
    /\ tx[2].result = "IntegrityError"
    /\ Cardinality(RewardRows(1)) = 1
    /\ Cardinality(RewardPayments(1)) = 1

\* C8: at most one settlement run is between reading its batch and committing.
C8_SingleActiveRun ==
    Cardinality({r \in Runs : tx[r].pc \in ActivePhases}) <= 1

\* C9: a run that failed on one post of its batch has still completed, and
\* every other post of its batch is settled.
C9_FailureConfinedToPost ==
    \A r \in Runs :
        tx[r].failed_post # NoRef =>
            /\ tx[r].pc # "aborted"
            /\ \A p \in tx[r].plan.batch \ {tx[r].failed_post} : RewardRows(p) # {}

-----------------------------------------------------------------------------
(* Properties of a settlement run, continued *)

\* C11: when a rewarded post has no qualifying comment (no top-level comment,
\* or none with a positive score), its author is paid the whole post reward:
\* the author share plus the comment pool.
C11_AuthorPaidInFull ==
    (op.kind = "settle" /\ op.result = "ok") =>
        \A e \in op.posts :
            (e.comment_pool > 0 /\ e.total_cscore = 0) =>
                \E i \in RewardPayments(e.post_id) :
                    ledger[i].amount = e.author_reward + e.comment_pool

\* C12: a settlement run with cutoff `before` records a PostReward, and pays a
\* post or comment reward, only for posts that were active, created at or
\* before the cutoff and without a PostReward when the run began.
C12_OnlyMaturedUnsettled ==
    [][ LET eligible == {p \in 1 .. Len(posts) :
                            /\ posts[p].status = "active"
                            /\ posts[p].created_at <= op'.before
                            /\ RewardRows(p) = {}}
            appended == {ledger'[i] : i \in Len(ledger) + 1 .. Len(ledger')}
        IN /\ post_rewards' # post_rewards => op'.kind = "settle"
           /\ \A r \in post_rewards' \ post_rewards : r.post_id \in eligible
           /\ \A x \in appended :
                  /\ x.action_type = "reward_post" => x.ref_id \in eligible
                  /\ x.action_type = "reward_comment" =>
                         comments[x.ref_id].post_id \in eligible ]_vars

\* C12 witness: a run recorded one post of two and left the other, which a
\* guilty challenge had deleted before the run.
C12_Witness ==
    /\ op.kind = "settle" /\ op.result = "ok" /\ op.posts_settled = 1
    /\ \E p, q \in 1 .. Len(posts) :
           /\ RewardRows(p) # {}
           /\ RewardRows(q) = {}
           /\ posts[q].status = "deleted" /\ posts[q].created_at <= op.before

\* Lines 283-288: the settlement bonus for a score > 0, the zero-engagement
\* penalty otherwise.
BaseDelta(e) == IF e.discovery_score > 0 THEN 3 ELSE -1

\* Line 292: the larger bonus.
LargerBonus(e) == Min(15, Max(5, e.discovery_score \div ScoreScale))

\* The posts of the batch whose score lies in the top 10% of its scores: fewer
\* than a tenth of the batch's posts score higher.
InTop10(batch) ==
    {e \in batch :
        10 * Cardinality({x \in batch : x.discovery_score > e.discovery_score})
            < Cardinality(batch)}

\* C13: after a settlement run every author's creator score has moved by the
\* settlement bonus or the zero-engagement penalty of each of their settled
\* posts, plus the larger bonus of some posts that all lie in the top 10% of
\* the batch's scores, and every user has one curator credit for each settled
\* post with a score > 0 that they liked.
C13_SettlementTrustDeltas ==
    [][ (op'.kind = "settle" /\ op'.result = "ok" /\ op'.posts_settled > 0) =>
            \E bonused \in SUBSET InTop10(op'.posts) :
                \A u \in Users :
                    LET mine == {e \in op'.posts : e.author_id = u}
                        liked == {e \in op'.posts :
                                     /\ e.discovery_score > 0
                                     /\ <<e.post_id, u>> \in post_likes}
                    IN /\ user_scores'[u].creator_score
                              = user_scores[u].creator_score
                                    + SumOver(mine, [e \in mine |-> BaseDelta(e)])
                                    + SumOver(mine \cap bonused,
                                              [e \in mine |-> LargerBonus(e)])
                       /\ user_scores'[u].curator_score
                              = user_scores[u].curator_score + Cardinality(liked) ]_vars

-----------------------------------------------------------------------------
(* Properties of challenges *)

\* The challenges of a content item that were not dismissed.
StandingChallenges(content_type, content_id) ==
    {c \in challenges : /\ c.content_type = content_type
                        /\ c.content_id = content_id
                        /\ c.status # "not_guilty"}

\* The fines charged for the challenges of a content item.
Fines(content_type, content_id) ==
    {i \in 1 .. Len(ledger) :
        /\ ledger[i].action_type = "fine"
        /\ \E c \in challenges : /\ c.id = ledger[i].ref_id
                                  /\ c.content_type = content_type
                                  /\ c.content_id = content_id}

\* C14: after any sequence or interleaving of create_challenge calls, every
\* content item has at most one challenge that was not dismissed, and its
\* author was fined at most once for it.
C14_OneStandingChallenge ==
    \A t \in {"post", "comment"}, c \in {1, 2} :
        /\ Cardinality(StandingChallenges(t, c)) <= 1
        /\ Cardinality(Fines(t, c)) <= 1

\* The content item exists (a post in any status, a comment not deleted).
ContentExists(content_type, content_id) ==
    IF content_type = "post" THEN content_id \in 1 .. Len(posts)
    ELSE CommentExists(db, content_id)

ContentRow(content_type, content_id) ==
    IF content_type = "post" THEN posts[content_id] ELSE comments[content_id]

\* The content is not active, is the challenger's own, is past the 7-day
\* filing window or already has a challenge that was not dismissed.
ChallengeRefused(challenger_id, content_type, content_id) ==
    /\ ContentExists(content_type, content_id)
    /\ \/ content_type = "post" /\ posts[content_id].status # "active"
       \/ ContentRow(content_type, content_id).author_id = challenger_id
       \/ now > ContentRow(content_type, content_id).created_at + 7
       \/ StandingChallenges(content_type, content_id) # {}

\* C15: a create_challenge call on content that is not active, is the
\* challenger's own, is past the filing window or already has a standing
\* challenge is rejected and leaves every balance, ledger entry, trust score
\* and challenge record as it was.
C15_RejectedChallengeChargesNothing ==
    [][ (/\ now' = now /\ op'.kind = "create_challenge"
         /\ ChallengeRefused(op'.user, op'.content_type, op'.content_id))
            => (op'.result = "400" /\ db' = db) ]_vars

\* C15 witness: the last call, by another user on an active post without a
\* standing challenge, came after the filing window had closed and was
\* rejected.
C15_Witness ==
    /\ op.kind = "create_challenge" /\ op.result = "400"
    /\ op.user \in Users /\ op.content_type = "post"
    /\ op.content_id \in 1 .. Len(posts)
    /\ posts[op.content_id].status = "active"
    /\ posts[op.content_id].author_id # op.user
    /\ StandingChallenges("post", op.content_id) = {}
    /\ now > posts[op.content_id].created_at + 7
    /\ available_balance[op.user] = 50000

\* The trust-adjusted fee of a challenge: max(1, round(100 * K(trust))).
ChallengeFee(challenger_id) ==
    Max(1, RoundHalfEven(100 * DynamicFeeMultiplier(user_scores[challenger_id].trust_score),
                         10000))

\* C16: a create_challenge call that passes the checks on the content but
\* whose challenger has less than the trust-adjusted fee fails with
\* ChallengeError (400) and changes nothing: no challenge record, no verdict
\* applied, no balance, ledger entry or trust score.
C16_UnaffordableChallengeHasNoEffect ==
    [][ (/\ now' = now /\ op'.kind = "create_challenge" /\ op'.user \in Users
         /\ ContentExists(op'.content_type, op'.content_id)
         /\ ~ChallengeRefused(op'.user, op'.content_type, op'.content_id)
         /\ available_balance[op'.user] < ChallengeFee(op'.user))
            => (op'.result = "400" /\ db' = db) ]_vars

\* C16 witness: the last call, on an active post of another user within the
\* window and without a standing challenge, was made with 100 sat against a
\* fee of 129 and was rejected.
C16_Witness ==
    /\ op.kind = "create_challenge" /\ op.result = "400"
    /\ op.user \in Users /\ op.content_type = "post"
    /\ ContentExists("post", op.content_id)
    /\ ~ChallengeRefused(op.user, "post", op.content_id)
    /\ available_balance[op.user] = 100 /\ ChallengeFee(op.user) = 129
    /\ challenges = {}

\* The fine for a content item: max(1, round(cost_paid * 1.0)).
FineFor(content_type, content_id) ==
    Max(1, ContentRow(content_type, content_id).cost_paid)

\* The content item is removed: the post is marked deleted, the comment is
\* deleted.
Removed(d, content_type, content_id) ==
    IF content_type = "post" THEN d.posts[content_id].status = "deleted"
    ELSE d.comments[content_id].deleted

\* C17: on a guilty verdict with fine F and an author balance >= F, the
\* author's balance goes down by exactly F, the challenger is credited the fee
\* paid plus round(0.35 * F), the content is removed, and the author's creator
\* score goes down by 30 and risk score up by 20.
C17_GuiltyWithFullFine ==
    [][ (/\ now' = now /\ op'.kind = "create_challenge" /\ op'.result = "ok"
         /\ op'.verdict = "guilty"
         /\ available_balance[ContentRow(op'.content_type, op'.content_id).author_id]
                >= FineFor(op'.content_type, op'.content_id))
            => LET author == ContentRow(op'.content_type, op'.content_id).author_id
                   F == FineFor(op'.content_type, op'.content_id)
                   fee == ChallengeFee(op'.user)
                   credit == fee + RoundHalfEven(35 * F, 100)
               IN /\ available_balance'[author] = available_balance[author] - F
                  /\ available_balance'[op'.user]
                         = available_balance[op'.user] - fee + credit
                  /\ ledger'[Len(ledger')].user_id = op'.user
                  /\ ledger'[Len(ledger')].action_type = "challenge_reward"
                  /\ ledger'[Len(ledger')].amount = credit
                  /\ Removed(db', op'.content_type, op'.content_id)
                  /\ user_scores'[author].creator_score
                         = user_scores[author].creator_score - 30
                  /\ user_scores'[author].risk_score
                         = user_scores[author].risk_score + 20 ]_vars

\* C17, with the scores kept in their range: as above, but the author's
\* creator score goes down by 30 and not below 0, and the risk score goes up
\* by 20 and not above 99999.
C17_GuiltyWithFullFineClamped ==
    [][ (/\ now' = now /\ op'.kind = "create_challenge" /\ op'.result = "ok"
         /\ op'.verdict = "guilty"
         /\ available_balance[ContentRow(op'.content_type, op'.content_id).author_id]
                >= FineFor(op'.content_type, op'.content_id))
            => LET author == ContentRow(op'.content_type, op'.content_id).author_id
                   F == FineFor(op'.content_type, op'.content_id)
                   fee == ChallengeFee(op'.user)
                   credit == fee + RoundHalfEven(35 * F, 100)
               IN /\ available_balance'[author] = available_balance[author] - F
                  /\ available_balance'[op'.user]
                         = available_balance[op'.user] - fee + credit
                  /\ ledger'[Len(ledger')].user_id = op'.user
                  /\ ledger'[Len(ledger')].action_type = "challenge_reward"
                  /\ ledger'[Len(ledger')].amount = credit
                  /\ Removed(db', op'.content_type, op'.content_id)
                  /\ user_scores'[author].creator_score
                         = Max(0, user_scores[author].creator_score - 30)
                  /\ user_scores'[author].risk_score
                         = Min(99999, user_scores[author].risk_score + 20) ]_vars

\* C17 witness: post 2, which cost its author 258 sat, was found guilty; the
\* author paid the fine of 258 in full and the challenger was credited the
\* fee of 129 plus 90.
C17_Witness ==
    /\ op.kind = "create_challenge" /\ op.result = "ok" /\ op.verdict = "guilty"
    /\ op.content_type = "post" /\ op.content_id = 2
    /\ posts[2].status = "deleted" /\ posts[2].cost_paid = 258
    /\ \E i \in 1 .. Len(ledger) :
           /\ ledger[i].action_type = "fine" /\ ledger[i].amount = -258
           /\ ledger[i].user_id = posts[2].author_id
    /\ ledger[Len(ledger)].action_type = "challenge_reward"
    /\ ledger[Len(ledger)].amount = 129 + 90

\* C18: on a guilty verdict against an author whose balance is below the
\* fine, the call succeeds and the challenge stands as guilty; the whole
\* balance is collected (it ends at 0); the challenger is credited the fee
\* plus round(0.35 * the amount collected); and the author's risk score goes
\* up by 30 for the shortfall, on top of the 20 of the verdict.
C18_GuiltyWithShortfall ==
    [][ (/\ now' = now /\ op'.kind = "create_challenge" /\ op'.user \in Users
         /\ op'.oracle = "guilty"
         /\ ContentExists(op'.content_type, op'.content_id)
         /\ ~ChallengeRefused(op'.user, op'.content_type, op'.content_id)
         /\ available_balance[op'.user] >= ChallengeFee(op'.user)
         /\ available_balance[ContentRow(op'.content_type, op'.content_id).author_id]
                < FineFor(op'.content_type, op'.content_id))
            => LET author == ContentRow(op'.content_type, op'.content_id).author_id
                   collected == available_balance[author]
                   fee == ChallengeFee(op'.user)
                   credit == fee + RoundHalfEven(35 * collected, 100)
               IN /\ op'.result = "ok"
                  /\ \E c \in challenges' \ challenges :
                         /\ c.content_type = op'.content_type
                         /\ c.content_id = op'.content_id
                         /\ c.status = "guilty"
                  /\ collected >= 0
                  /\ available_balance'[author] = 0
                  /\ \A i \in Len(ledger) + 1 .. Len(ledger') :
                         ledger'[i].action_type = "fine" =>
                             /\ ledger'[i].user_id = author
                             /\ ledger'[i].amount = -collected
                             /\ ledger'[i].balance_after = 0
                  /\ available_balance'[op'.user]
                         = available_balance[op'.user] - fee + credit
                  /\ ledger'[Len(ledger')].action_type = "challenge_reward"
                  /\ ledger'[Len(ledger')].amount = credit
                  /\ user_scores'[author].risk_score
                         = Min(99999, user_scores[author].risk_score + 20 + 30) ]_vars

\* C18 witness: post 2 (cost 258) was found guilty while its author had 77
\* sat; 77 were collected, the author is at 0 and the challenger was
\* credited the fee of 129 plus round(0.35 * 77) = 27.
C18_Witness ==
    /\ op.kind = "create_challenge" /\ op.result = "ok" /\ op.verdict = "guilty"
    /\ op.content_type = "post" /\ op.content_id = 2
    /\ posts[2].status = "deleted" /\ posts[2].cost_paid = 258
    /\ available_balance[posts[2].author_id] = 0
    /\ \E i \in 1 .. Len(ledger) :
           /\ ledger[i].action_type = "fine" /\ ledger[i].amount = -77
           /\ ledger[i].balance_after = 0
    /\ ledger[Len(ledger)].action_type = "challenge_reward"
    /\ ledger[Len(ledger)].amount = 129 + 27

\* C19: on a not_guilty verdict the author is credited round(0.20 * fee), the
\* rest of the fee is added to the platform pool, the challenger gets nothing
\* back, and only the author's trust sub-scores change.
C19_NotGuiltyFeeAccounted ==
    [][ (/\ now' = now /\ op'.kind = "create_challenge" /\ op'.result = "ok"
         /\ op'.verdict = "not_guilty")
            => LET author == ContentRow(op'.content_type, op'.content_id).author_id
                   fee == ChallengeFee(op'.user)
                   author_share == RoundHalfEven(20 * fee, 100)
               IN /\ available_balance'[author] = available_balance[author] + author_share
                  /\ available_balance'[op'.user] = available_balance[op'.user] - fee
                  /\ \/ platform_revenue' = platform_revenue + (fee - author_share)
                     \/ reward_pools' # reward_pools
                  /\ \A u \in Users \ {author} : user_scores'[u] = user_scores[u]
                  /\ user_scores'[author] # user_scores[author] ]_vars

\* The parts of C19 that the code does: the author's credit, the challenger's
\* loss of the whole fee and the trust bump of 3 to the author's creator score
\* alone; no pool receives the rest of the fee.
C19_NotGuiltyAuthorAndChallenger ==
    [][ (/\ now' = now /\ op'.kind = "create_challenge" /\ op'.result = "ok"
         /\ op'.verdict = "not_guilty")
            => LET author == ContentRow(op'.content_type, op'.content_id).author_id
                   fee == ChallengeFee(op'.user)
                   author_share == RoundHalfEven(20 * fee, 100)
               IN /\ available_balance'[author] = available_balance[author] + author_share
                  /\ available_balance'[op'.user] = available_balance[op'.user] - fee
                  /\ \A u \in Users \ {author} : user_scores'[u] = user_scores[u]
                  /\ user_scores'[author].creator_score
                         = Min(99999, user_scores[author].creator_score + 3)
                  /\ user_scores'[author].curator_score = user_scores[author].curator_score
                  /\ user_scores'[author].juror_score = user_scores[author].juror_score
                  /\ user_scores'[author].risk_score = user_scores[author].risk_score
                  /\ platform_revenue' = platform_revenue
                  /\ reward_pools' = reward_pools ]_vars

\* A create_challenge call that passes its checks and whose fee the
\* challenger can pay: the call is at the point where it asks for a verdict.
FeeCharged ==
    /\ now' = now /\ op'.kind = "create_challenge" /\ op'.user \in Users
    /\ ContentExists(op'.content_type, op'.content_id)
    /\ ~ChallengeRefused(op'.user, op'.content_type, op'.content_id)
    /\ available_balance[op'.user] >= ChallengeFee(op'.user)

\* The verdict of the rules on the content of the call.
RuleVerdict ==
    RuleBasedFallback(db, ContentRow(op'.content_type, op'.content_id).author_id,
                      HasSpamKeyword(op'.content_type, op'.content_id))

\* C20: once the fee is charged, create_challenge completes with a verdict of
\* guilty or not_guilty; when no oracle is configured or the oracle call fails
\* or times out, the verdict is that of the rules and the request succeeds.
C20_AlwaysAVerdict ==
    [][ FeeCharged
            => /\ op'.result = "ok"
               /\ op'.verdict \in {"guilty", "not_guilty"}
               /\ op'.oracle \in {"none", "error"} => op'.verdict = RuleVerdict ]_vars

\* What the code does of C20: without an oracle the verdict is that of the
\* rules; with an oracle whose call raises, the request fails and no challenge
\* is recorded.
C20_RulesOnlyWithoutOracle ==
    [][ FeeCharged
            => /\ op'.oracle = "none" => op'.result = "ok" /\ op'.verdict = RuleVerdict
               /\ op'.oracle = "error" =>
                      /\ op'.result = "500" /\ op'.verdict = "none"
                      /\ challenges' = challenges
               /\ op'.oracle \in {"guilty", "not_guilty"} =>
                      op'.result = "ok" /\ op'.verdict = op'.oracle ]_vars

-----------------------------------------------------------------------------
(* The trust scores alone: calls of TrustScoreService on new accounts.      *)

\* The deltas of the calls: those the services pass (-30, 3, 5, 20) and two
\* that carry any score over an end of its range.
Deltas == {-100000, -30, 3, 5, 20, 100000}

InitTrust ==
    /\ db = EmptyDb
    /\ now = 0
    /\ op = [kind |-> "none", user |-> 0, amount |-> 0, result |-> "none", calls |-> 0]
    /\ tx = NoTx

\* One call of update_creator, update_curator, update_juror or update_risk.
\* db.get finds no row for an unknown user and the call raises ValueError.
TrustUpdate(kind, user_id, delta) ==
    /\ op.calls < MaxUpdates
    /\ op' = [kind |-> kind, user |-> user_id, amount |-> delta,
              result |-> IF user_id \in Users THEN "ok" ELSE "ValueError",
              calls |-> op.calls + 1]
    /\ db' = IF user_id \notin Users THEN db
             ELSE [db EXCEPT !.user_scores =
                      CASE kind = "update_creator" -> UpdateCreator(@, user_id, delta)
                        [] kind = "update_curator" -> UpdateCurator(@, user_id, delta)
                        [] kind = "update_juror" -> UpdateJuror(@, user_id, delta)
                        [] kind = "update_risk" -> UpdateRisk(@, user_id, delta)]
    /\ UNCHANGED <<now, tx>>

NextTrust ==
    \E kind \in {"update_creator", "update_curator", "update_juror", "update_risk"},
       user_id \in {1, UnknownUser}, delta \in Deltas :
        TrustUpdate(kind, user_id, delta)

SpecTrust == InitTrust /\ [][NextTrust]_vars

-----------------------------------------------------------------------------
(* The fee of an action: _apply_k over the base costs and the trust scores. *)

\* The base costs the routes and the challenge service pass, and 1 sat.
BaseCosts ==
    {1, BASE_LIKE_COMMENT_COST, BASE_LIKE_POST_COST, BASE_REPLY_COST,
     BASE_COMMENT_COST, BASE_CHALLENGE_FEE, BASE_POST_COST, BASE_QUESTION_COST}

\* The fee of base cost `base_cost` at trust score `trust_score`; k is K in
\* units of 1/10000.
Quote(base_cost, trust_score) ==
    [kind |-> "apply_k", user |-> 0, amount |-> base_cost, result |-> "ok",
     trust_score |-> trust_score, k |-> DynamicFeeMultiplier(trust_score),
     fee |-> ApplyK(base_cost, trust_score)]

InitFee ==
    /\ db = EmptyDb
    /\ now = 0
    /\ \E base_cost \in BaseCosts, trust_score \in {-5, 0} :
           op = Quote(base_cost, trust_score)
    /\ tx = NoTx

\* The same base cost is quoted for a higher trust score.
QuoteHigher(by) ==
    /\ op.trust_score + by <= MaxTrust
    /\ op' = Quote(op.amount, op.trust_score + by)
    /\ UNCHANGED <<db, now, tx>>

NextFee == \E by \in {1, 2, 135, 500} : QuoteHigher(by)

SpecFee == InitFee /\ [][NextFee]_vars

\* C22: K lies within [0.6, 1.4] and the fee is at least 1 sat; from a trust
\* score to a higher one, K and the fee for the same base cost do not go up.
C22_FeeNonIncreasingInTrust ==
    /\ [](op.k \in 6000 .. 14000 /\ op.fee >= 1)
    /\ [][ (op'.amount = op.amount /\ op'.trust_score >= op.trust_score)
              => (op'.k <= op.k /\ op'.fee <= op.fee) ]_vars

\* C22 witness: a base cost of 100 quoted at the highest trust score costs 60,
\* less than the 140 it costs at trust 0.
C22_Witness ==
    /\ op.amount = BASE_CHALLENGE_FEE /\ op.trust_score = MaxTrust
    /\ op.k = 6000 /\ op.fee = 60
    /\ ApplyK(BASE_CHALLENGE_FEE, 0) = 140

-----------------------------------------------------------------------------
(* The risk penalty of the composite trust score, point by point.           *)

\* ReputationScores.calculate_trust_score of the simulator: its risk penalty,
\* in halves: risk * 0.5 up to 50, 25 + (risk - 50) * 2 up to 100,
\* 125 + (risk - 100) * 5 above.
SimRiskPenalty(risk) ==
    IF risk <= 50 THEN risk
    ELSE IF risk <= 100 THEN 2 * (25 + (risk - 50) * 2)
    ELSE 2 * (125 + (risk - 100) * 5)

\* The penalties and the composite at risk score `risk` for an account whose
\* other sub-scores are those of `sc`; the increases are those from the
\* risk score before.
AtRisk(sc, risk, before) ==
    [kind |-> "compute_trust_score", user |-> 0, amount |-> risk, result |-> "ok",
     scores |-> sc,
     risk_penalty |-> RiskPenalty(risk),
     increase |-> RiskPenalty(risk) - RiskPenalty(before),
     sim_penalty |-> SimRiskPenalty(risk),
     sim_increase |-> SimRiskPenalty(risk) - SimRiskPenalty(before),
     trust_score |-> ComputeTrustScore(sc.creator_score, sc.curator_score,
                                       sc.juror_score, risk)]

InitRisk ==
    /\ db = EmptyDb
    /\ now = 0
    /\ \E creator \in {NewScores.creator_score, 10 * MaxRisk} :
           op = AtRisk([NewScores EXCEPT !.creator_score = creator], 0, 0)
    /\ tx = NoTx

\* The same account with one more point of risk.
RiskPoint ==
    /\ op.amount < MaxRisk
    /\ op' = AtRisk(op.scores, op.amount + 1, op.amount)
    /\ UNCHANGED <<db, now, tx>>

NextRisk == RiskPoint

SpecRisk == InitRisk /\ [][NextRisk]_vars

\* C23: from one risk point to the next the risk penalty of
\* compute_trust_score, and that of the simulator, does not go down, its
\* increase is not smaller than the increase before (convexity), and the
\* composite trust score does not go up.
C23_RiskPenaltyConvex ==
    [][ /\ op'.risk_penalty >= op.risk_penalty
        /\ op'.sim_penalty >= op.sim_penalty
        /\ op'.trust_score <= op.trust_score
        /\ op.amount >= 1 => /\ op'.increase >= op.increase
                             /\ op'.sim_increase >= op.sim_increase ]_vars

\* What holds of C23: both penalties are non-decreasing, the composite is
\* non-increasing in risk, and the simulator's penalty is convex; the API's
\* penalty is convex on either side of risk 100.
C23_RiskPenaltyMonotone ==
    [][ /\ op'.risk_penalty >= op.risk_penalty
        /\ op'.sim_penalty >= op.sim_penalty
        /\ op'.trust_score <= op.trust_score
        /\ op.amount >= 1 => /\ op'.sim_increase >= op.sim_increase
                             /\ op.amount # 101 => op'.increase >= op.increase ]_vars

-----------------------------------------------------------------------------
(* The tier of a trust score.  The API classifies the integer trust_score   *)
(* of a user row; the simulator classifies the float that                   *)
(* calculate_trust_score returns.  Scores are kept in halves here.          *)

\* get_trust_tier of the simulator on the score halves / 2: the bands are
\* those of the API and the comparisons are those of reals.
SimTrustTier(halves) ==
    LET holding == {i \in 1 .. 5 : /\ 2 * TRUST_TIER_RANGES[i][1] <= halves
                                   /\ halves <= 2 * TRUST_TIER_RANGES[i][2]}
    IN IF holding = {} THEN 0
       ELSE (CHOOSE i \in holding : \A j \in holding : i <= j) - 1

\* The number of bands that hold the score halves / 2.
BandsHolding(halves) ==
    Cardinality({i \in 1 .. 5 : /\ 2 * TRUST_TIER_RANGES[i][1] <= halves
                                /\ halves <= 2 * TRUST_TIER_RANGES[i][2]})

\* TRUST_TIER_WEIGHTS of LikeWeightService, in halves, for tiers 0 to 4.
TRUST_TIER_WEIGHTS == <<1, 2, 4, 8, 12>>

\* LikeWeightService._calc_w_trust for a liker whose fresh trust score is
\* trust_score.
CalcWTrust(trust_score) == TRUST_TIER_WEIGHTS[TrustTier(trust_score) + 1]

\* The tiers and, for the integer part of the score, the weights of a like.
Classified(halves) ==
    [kind |-> "trust_tier", user |-> 0, amount |-> halves, result |-> "ok",
     bands |-> BandsHolding(halves),
     w_trust |-> WTrust(halves \div 2),
     calc_w_trust |-> CalcWTrust(halves \div 2),
     tier |-> IF halves % 2 = 0 THEN TrustTier(halves \div 2) ELSE SimTrustTier(halves),
     sim_tier |-> SimTrustTier(halves)]

\* The scores 0 to MaxTierScore and the last ten up to 99999.
InitTier ==
    /\ db = EmptyDb
    /\ now = 0
    /\ \E score \in {0, SCORE_MAX - 10} : op = Classified(2 * score)
    /\ tx = NoTx

InStretch(halves) ==
    \/ halves <= 2 * MaxTierScore
    \/ 2 * (SCORE_MAX - 10) <= halves /\ halves <= 2 * SCORE_MAX

\* The next integer score.
NextScore ==
    /\ op.amount % 2 = 0 /\ InStretch(op.amount + 2)
    /\ op' = Classified(op.amount + 2)
    /\ UNCHANGED <<db, now, tx>>

\* The score half a point higher.
HalfPoint ==
    /\ InStretch(op.amount + 1)
    /\ op' = Classified(op.amount + 1)
    /\ UNCHANGED <<db, now, tx>>

NextTier == NextScore \/ HalfPoint

SpecTier == InitTier /\ [][NextTier]_vars

\* C24: every score, integer or real, lies in exactly one band, and from a
\* score to a higher one the tier does not go down.
C24_OneBandAndMonotone ==
    /\ [](op.bands = 1)
    /\ [][ op'.tier >= op.tier /\ op'.sim_tier >= op.sim_tier ]_vars

\* What holds of C24: the integer scores lie in exactly one band each and
\* their tiers, by trust_tier and by get_trust_tier, do not go down from one
\* integer to the next.
C24_IntegerScoresTiered ==
    /\ [](op.amount % 2 = 0 => op.bands = 1 /\ op.tier = op.sim_tier)
    /\ [][ (op.amount % 2 = 0 /\ op'.amount % 2 = 0)
              => (op'.tier >= op.tier /\ op'.sim_tier >= op.sim_tier) ]_vars

\* The sub-score that the call of `kind` changes.
SubScore(sc, kind) ==
    CASE kind = "update_creator" -> sc.creator_score
      [] kind = "update_curator" -> sc.curator_score
      [] kind = "update_juror" -> sc.juror_score
      [] kind = "update_risk" -> sc.risk_score

\* C25: update_creator and update_curator raise the sub-score by a positive
\* delta scaled by the multiplier of the account's tier (rounded down or up to
\* a whole point, and not above the ceiling), and lower it by the whole of a
\* negative delta, down to the floor.
C25_PositiveDeltasScaledByTier ==
    [][ (op'.kind \in {"update_creator", "update_curator"} /\ op'.result = "ok")
            => LET before == SubScore(user_scores[op'.user], op'.kind)
                   after == SubScore(user_scores'[op'.user], op'.kind)
                   delta == op'.amount
                   scaled == delta * GetTierMultiplier(user_scores[op'.user].trust_score)
               IN IF delta < 0 THEN after = Max(SCORE_MIN, before + delta)
                  ELSE \/ after = Min(SCORE_MAX, before + scaled \div 100)
                       \/ after = Min(SCORE_MAX, before + (scaled + 99) \div 100) ]_vars

\* What the code does of C25: every delta, positive or negative, is applied
\* in full whatever the tier, within the range of the score.
C25_DeltasAppliedInFull ==
    [][ (op'.kind \in {"update_creator", "update_curator"} /\ op'.result = "ok")
            => SubScore(user_scores'[op'.user], op'.kind)
                   = Max(SCORE_MIN, Min(SCORE_MAX,
                         SubScore(user_scores[op'.user], op'.kind) + op'.amount)) ]_vars

-----------------------------------------------------------------------------
(* The Discovery Score of a post as its likes come in: four seeded accounts, *)
(* user 1 has written post 1.                                                *)

\* LikeWeightService._calc_ce_entropy, in ten-thousandths: 1.0 for fewer
\* than two likers; otherwise 0.02 + 9.98 * H / log2(5), H the Shannon
\* entropy of the likers' tiers.  H is 0 when all likers share a tier; for up
\* to three likers in several tiers it is 1 (1 + 1), 0.9183 (2 + 1) or
\* 1.5850 (1 + 1 + 1), which gives 4.3182, 3.9670 and 6.8324.
CeEntropy(d, post_id) ==
    LET likers == PostLikers(d, post_id)
        TierOf(u) == TrustTier(ComputeTrustScore(d.user_scores[u].creator_score,
                                                 d.user_scores[u].curator_score,
                                                 d.user_scores[u].juror_score,
                                                 d.user_scores[u].risk_score))
        tiers == {TierOf(u) : u \in likers}
    IN IF Cardinality(likers) < 2 THEN 10000
       ELSE IF Cardinality(tiers) = 1 THEN 200
       ELSE IF Cardinality(likers) = 2 THEN 43182
       ELSE IF Cardinality(tiers) = 2 THEN 39670
       ELSE 68324

InitScore ==
    /\ db = ApplyCall(WithSeededUser(SeededDb([u \in Users |-> 50000]), 50000),
                      0, Call("post", 1, 0, 0))
    /\ now = 0
    /\ op = NoOp
    /\ tx = NoTx

\* like_post on post 1
ScoreLike(user_id) ==
    /\ Respond("like_post", user_id, LikePostOn(db, now, 1, user_id))

\* follow_user: user_id follows the author of post 1
ScoreFollow(user_id) ==
    /\ Respond("follow", user_id, FollowOn(db, posts[1].author_id, user_id))

\* DiscoveryService.calculate_post_score(1), in units of 1/ScoreScale.
ScorePost ==
    /\ op' = [kind |-> "calculate_post_score", user |-> 0, result |-> "ok",
              amount |-> CalculatePostScore(db, now, 1)]
    /\ UNCHANGED <<db, now, tx>>

NextScoring ==
    \/ \E u \in DOMAIN user_scores : ScoreLike(u)
    \/ \E u \in DOMAIN user_scores : ScoreFollow(u)
    \/ ScorePost

SpecScore == InitScore /\ [][NextScoring]_vars

\* The likers of post 1 are three, each in the lowest tier, none follows the
\* author and none has an interaction with the author but this like.
ThreeFreshStrangers ==
    /\ Cardinality(PostLikers(db, 1)) = 3
    /\ \A u \in PostLikers(db, 1) :
           /\ TrustTier(user_scores[u].trust_score) = 0
           /\ <<u, posts[1].author_id>> \notin follows
           /\ Cardinality({i \in 1 .. Len(interaction_logs) :
                              /\ interaction_logs[i].actor_id = u
                              /\ interaction_logs[i].target_user_id = posts[1].author_id})
                  = 1

\* C26: the Discovery Score of a post with exactly three likes, each a first
\* interaction of a lowest-tier stranger, is 3 * 0.5 * 1.0 * 1.0 * E, with E
\* the entropy factor of the post's like set.
C26_ScoreIncludesEntropy ==
    [][ (op'.kind = "calculate_post_score" /\ ThreeFreshStrangers)
            => op'.amount * 10000 = 3 * (1 * 100 * 20) * CeEntropy(db, 1) ]_vars

\* What the code returns in the case of C26: 3 * 0.5 * 1.0 * 1.0 = 1.5, the
\* sum of the like weights without an entropy factor.
C26_ScoreIsSumOfLikeWeights ==
    [][ (op'.kind = "calculate_post_score" /\ ThreeFreshStrangers)
            => op'.amount * 2 = 3 * ScoreScale ]_vars

\* C27: the weight w_trust gives a like is the weight of the liker's tier by
\* trust_tier, the weight _calc_w_trust gives, and it does not go down from a
\* trust score to a higher one.
C27_WTrustIsTierWeight ==
    /\ [](op.kind = "trust_tier" /\ op.amount % 2 = 0 => op.w_trust = op.calc_w_trust)
    /\ [][ (op.kind = "trust_tier" /\ op.amount % 2 = 0 /\ op'.amount % 2 = 0)
              => op'.w_trust >= op.w_trust ]_vars

\* What holds of C27: up to a trust score of 1000 w_trust does not go down
\* and is at most the weight of the tier; the weight of the tier does not go
\* down anywhere.
C27_WTrustBelowTierWeight ==
    /\ [](op.kind = "trust_tier" /\ op.amount <= 2 * 1000 => op.w_trust <= op.calc_w_trust)
    /\ [][ (op.kind = "trust_tier" /\ op.amount % 2 = 0 /\ op'.amount % 2 = 0)
              => /\ op'.calc_w_trust >= op.calc_w_trust
                 /\ op'.amount <= 2 * 1000 => op'.w_trust >= op.w_trust ]_vars

(***************************************************************************)
(* The simulator's EconomicEngine: the circle of a user, the suspicion     *)
(* score, the two per-day caches and the daily circle contribution         *)
(* budget of calculate_like_weight.  The engine and the users it is given  *)
(* are the record op.  Weights are in units of 1 / WeightScale, a          *)
(* suspicion score is a reduced fraction <<numerator, denominator>>.       *)
(***************************************************************************)

SimUsers == {"u1", "u2"}

\* w_trust is kept in halves, n_novelty, s_source and ce_entropy in hundredths.
WeightScale == 2 * 100 * 100 * 100

CIRCLE_SIZE == 10

DAILY_CIRCLE_CONTRIBUTION_LIMIT == 100 * WeightScale

CABAL_VOLUME_THRESHOLD == 50

\* W_TRUST of the simulator, in halves, for the tiers WHITE to ORANGE.
W_TRUST == <<1, 2, 4, 7, 12>>

\* get_n_novelty, in hundredths.
GetNNovelty(interaction_count) ==
    IF interaction_count <= 0 THEN 100
    ELSE IF interaction_count <= 3 THEN 60
    ELSE IF interaction_count <= 10 THEN 30
    ELSE IF interaction_count <= 30 THEN 12
    ELSE 5

\* A reduced fraction.
Frac(num, den) == LET g == Gcd(num, den) IN <<num \div g, den \div g>>

FracMin(a, b) == IF a[1] * b[2] <= b[1] * a[2] THEN a ELSE b

FracAdd(a, b) == Frac(a[1] * b[2] + b[1] * a[2], a[2] * b[2])

\* User.interaction_history is a dict: a sequence of entries in insertion
\* order.  User.get_interaction_count.
GetInteractionCount(history, other) ==
    IF \E i \in DOMAIN history : history[i].uid = other
    THEN history[CHOOSE i \in DOMAIN history : history[i].uid = other].count
    ELSE 0

\* User.record_interaction.
RecordInteraction(history, other) ==
    IF \E i \in DOMAIN history : history[i].uid = other
    THEN [i \in DOMAIN history |->
              IF history[i].uid = other
              THEN [history[i] EXCEPT !.count = @ + 1] ELSE history[i]]
    ELSE Append(history, [uid |-> other, count |-> 1])

\* The entries that sorted(items, key = count, reverse = True)[:n] keeps:
\* the sort is stable, so of two entries with one count the earlier wins.
TopEntries(history, n) ==
    {i \in DOMAIN history :
        Cardinality({j \in DOMAIN history :
                        \/ history[j].count > history[i].count
                        \/ history[j].count = history[i].count /\ j < i}) < n}

TotalCount(history, entries) ==
    SumOver(entries, [i \in DOMAIN history |-> history[i].count])

\* The circle get_user_circle computes when the cache has no entry.
CircleOf(history) == {history[i].uid : i \in TopEntries(history, CIRCLE_SIZE)}

\* The score calculate_user_suspicion computes when the cache has no entry.
SuspicionOf(history) ==
    LET total_interactions == TotalCount(history, DOMAIN history)
        top_n == Min(CIRCLE_SIZE, Len(history))
        circle_interactions == TotalCount(history, TopEntries(history, top_n))
        Boosted(suspicion) ==
            IF top_n >= 3 /\ circle_interactions > CABAL_VOLUME_THRESHOLD * top_n
            THEN FracMin(Frac(95, 100),
                         FracAdd(suspicion,
                                 FracMin(Frac(1, 10),
                                         Frac(circle_interactions
                                                  - CABAL_VOLUME_THRESHOLD * top_n,
                                              100 * top_n))))
            ELSE suspicion
    IN IF total_interactions < 20 THEN Frac(0, 1)
       ELSE IF 2 * circle_interactions <= total_interactions
            THEN Boosted(Frac(0, 1))
            ELSE Boosted(FracMin(Frac(9, 10),
                                 Frac(2 * circle_interactions - total_interactions,
                                      total_interactions)))

FracMul(a, b) == Frac(a[1] * b[1], a[2] * b[2])

\* f with the key k set to v.
Put(f, k, v) == [x \in DOMAIN f \cup {k} |-> IF x = k THEN v ELSE f[x]]

\* EconomicEngine.reset_daily_contributions.
ResetDailyContributions_KeepCaches(e, day) ==
    [e EXCEPT
        !.day = day,
        !.suspicion_cache_day = day,
        !.circle_cache_day = day,
        !.circle_contributions =
            [u \in DOMAIN @ |->
                [d \in {x \in DOMAIN @[u] : ~(x < day - 1)} |-> @[u][d]]]]

ResetDailyContributions(e, day) ==
    [e EXCEPT
        !.day = day,
        !.suspicion_cache = IF day # e.suspicion_cache_day THEN <<>> ELSE @,
        !.suspicion_cache_day = day,
        !.circle_cache = IF day # e.circle_cache_day THEN <<>> ELSE @,
        !.circle_cache_day = day,
        !.circle_contributions =
            [u \in DOMAIN @ |->
                [d \in {x \in DOMAIN @[u] : ~(x < day - 1)} |-> @[u][d]]]]

\* EconomicEngine.get_user_circle: the value returned and the engine after.
\* A cache entry carries the day it was computed on.
GetUserCircle(e, user) ==
    IF user \in DOMAIN e.circle_cache
    THEN [returned |-> e.circle_cache[user].value, engine |-> e]
    ELSE LET circle == CircleOf(e.users[user].interaction_history)
         IN [returned |-> circle,
             engine |-> [e EXCEPT !.circle_cache =
                            Put(@, user, [value |-> circle, computed_on |-> e.day])]]

\* EconomicEngine.calculate_user_suspicion.
CalculateUserSuspicion(e, user) ==
    IF user \in DOMAIN e.suspicion_cache
    THEN [returned |-> e.suspicion_cache[user].value, engine |-> e]
    ELSE LET suspicion == SuspicionOf(e.users[user].interaction_history)
         IN [returned |-> suspicion,
             engine |-> [e EXCEPT !.suspicion_cache =
                            Put(@, user, [value |-> suspicion, computed_on |-> e.day])]]

\* EconomicEngine._calculate_ce_entropy, in hundredths.
CalculateCeEntropy(liker, author, liker_id, author_id) ==
    LET mutual_interactions ==
            GetInteractionCount(liker.interaction_history, author_id)
                + GetInteractionCount(author.interaction_history, liker_id)
        common_following == liker.following \cap author.following
    IN IF liker.cabal_id # "None" /\ liker.cabal_id = author.cabal_id THEN 2
       ELSE IF mutual_interactions > 20 THEN 2
       ELSE IF mutual_interactions > 10 THEN 15
       ELSE IF /\ liker.following # {}
               /\ 2 * Cardinality(common_following) > Cardinality(liker.following)
            THEN 15
       ELSE IF /\ liker.following # {}
               /\ 5 * Cardinality(common_following) > Cardinality(liker.following)
            THEN 100
       ELSE IF liker.user_type # author.user_type THEN 500
       ELSE 100

\* The circle contribution step of calculate_like_weight for an author of
\* the liker's circle: the multiplier and the counter of the day after.
CircleLimit_FullOverBudget(today_contribution, base_weight) ==
    IF today_contribution >= DAILY_CIRCLE_CONTRIBUTION_LIMIT
    THEN [mult |-> Frac(0, 1), counter |-> today_contribution]
    ELSE [mult |-> Frac(1, 1), counter |-> today_contribution + base_weight]

CircleLimit(today_contribution, base_weight) ==
    IF today_contribution >= DAILY_CIRCLE_CONTRIBUTION_LIMIT
    THEN [mult |-> Frac(0, 1), counter |-> today_contribution]
    ELSE IF today_contribution + base_weight > DAILY_CIRCLE_CONTRIBUTION_LIMIT
    THEN [mult |-> Frac(DAILY_CIRCLE_CONTRIBUTION_LIMIT - today_contribution,
                        base_weight),
          counter |-> DAILY_CIRCLE_CONTRIBUTION_LIMIT]
    ELSE [mult |-> Frac(1, 1), counter |-> today_contribution + base_weight]

\* 1 - suspicion * weight_penalty, the penalty in hundredths.
SuspicionMult(suspicion, hundredths) ==
    Frac(100 * suspicion[2] - hundredths * suspicion[1], 100 * suspicion[2])

\* EconomicEngine.calculate_like_weight: the tuple returned, with the base
\* weight and the circle multiplier it was computed from, and the engine
\* after.  admitted sums base_weight * circle_limit_mult per liker and day
\* over the likes toward the liker's circle.
CalculateLikeWeight(e, liker, author, current_day) ==
    LET w_trust == W_TRUST[SimTrustTier(e.users[liker].trust_score) + 1]
        n_novelty ==
            GetNNovelty(GetInteractionCount(e.users[liker].interaction_history, author))
        s_source == IF author \in e.users[liker].following THEN 15 ELSE 100
        ce_entropy == CalculateCeEntropy(e.users[liker], e.users[author], liker, author)
        base_weight == w_trust * n_novelty * s_source * ce_entropy
        circle == GetUserCircle(e, liker)
        in_circle == author \in circle.returned
        today_contribution ==
            IF current_day \in DOMAIN e.circle_contributions[liker]
            THEN e.circle_contributions[liker][current_day] ELSE 0
        limit == IF in_circle THEN CircleLimit(today_contribution, base_weight)
                 ELSE [mult |-> Frac(1, 1), counter |-> 0]
        Counted(eng) ==
            IF in_circle
            THEN [eng EXCEPT
                     !.circle_contributions[liker] = Put(@, current_day, limit.counter),
                     !.admitted[liker][current_day] =
                         @ + (base_weight * limit.mult[1]) \div limit.mult[2]]
            ELSE eng
        Finish(liker_suspicion, author_suspicion) ==
            [returned |->
                 [w_trust |-> w_trust, n_novelty |-> n_novelty, s_source |-> s_source,
                  ce_entropy |-> ce_entropy, scout_mult |-> 1,
                  in_circle |-> in_circle,
                  base_weight |-> base_weight,
                  before |-> today_contribution,
                  circle_limit_mult |-> limit.mult,
                  combined_penalty |->
                      FracMul(limit.mult,
                              FracMul(SuspicionMult(liker_suspicion.returned, 70),
                                      SuspicionMult(author_suspicion.returned, 49)))],
             engine |-> author_suspicion.engine]
        WithLiker(liker_suspicion) ==
            Finish(liker_suspicion,
                   CalculateUserSuspicion(liker_suspicion.engine, author))
    IN WithLiker(CalculateUserSuspicion(Counted(circle.engine), liker))

MaxSimDay == 2

MaxLikes == 7

MaxRecords == 2

SimUser(trust_score, user_type, interaction_history) ==
    [trust_score |-> trust_score, user_type |-> user_type, cabal_id |-> "None",
     following |-> {}, interaction_history |-> interaction_history]

\* The engine as EconomicEngine.__init__ leaves it, over two users: u1 is
\* WHITE or ORANGE and has met u2 never, once or nineteen times.
InitEngine ==
    /\ db = EmptyDb
    /\ now = 0
    /\ tx = NoTx
    /\ \E trust_score \in {2 * 135, 2 * 800}, met \in {0, 1, 19} :
           op = [kind |-> "init", user |-> "u1", returned |-> {},
                 day |-> -1, likes |-> 0, records |-> 0,
                 users |->
                     [u \in SimUsers |->
                         IF u = "u1"
                         THEN SimUser(trust_score, "curator",
                                      IF met = 0 THEN <<>>
                                      ELSE <<[uid |-> "u2", count |-> met]>>)
                         ELSE SimUser(2 * 135, "elite_creator", <<>>)],
                 circle_contributions |-> [u \in SimUsers |-> <<>>],
                 admitted |-> [u \in SimUsers |-> [d \in 1 .. MaxSimDay |-> 0]],
                 suspicion_cache |-> <<>>,
                 suspicion_cache_day |-> -1,
                 circle_cache |-> <<>>,
                 circle_cache_day |-> -1]

\* Simulation.run starts a day: reset_daily_contributions(day).
ResetDaily(day) ==
    /\ day >= op.day
    /\ op' = [ResetDailyContributions(op, day) EXCEPT
                 !.kind = "reset_daily_contributions", !.returned = {}]
    /\ UNCHANGED <<db, now, tx>>

\* user.record_interaction(other).
Interact(user, other) ==
    /\ user # other
    /\ op.records < MaxRecords
    /\ op' = [op EXCEPT
                 !.kind = "record_interaction", !.user = user, !.returned = {},
                 !.records = @ + 1,
                 !.users[user].interaction_history = RecordInteraction(@, other)]
    /\ UNCHANGED <<db, now, tx>>

EngineCircle(user) ==
    /\ LET got == GetUserCircle(op, user)
       IN op' = [got.engine EXCEPT
                    !.kind = "get_user_circle", !.user = user,
                    !.returned = got.returned]
    /\ UNCHANGED <<db, now, tx>>

EngineSuspicion(user) ==
    /\ LET got == CalculateUserSuspicion(op, user)
       IN op' = [got.engine EXCEPT
                    !.kind = "calculate_user_suspicion", !.user = user,
                    !.returned = got.returned]
    /\ UNCHANGED <<db, now, tx>>

\* A like of the day: calculate_like_weight(liker, author, current_day = day).
EngineLike(liker, author) ==
    /\ liker # author
    /\ op.day >= 1
    /\ op.likes < MaxLikes
    /\ LET got == CalculateLikeWeight(op, liker, author, op.day)
       IN op' = [got.engine EXCEPT
                    !.kind = "calculate_like_weight", !.user = liker,
                    !.likes = @ + 1,
                    !.returned = got.returned]
    /\ UNCHANGED <<db, now, tx>>

NextEngine ==
    \/ \E day \in 1 .. MaxSimDay : ResetDaily(day)
    \/ \E user \in SimUsers, other \in SimUsers : Interact(user, other)
    \/ \E user \in SimUsers : EngineCircle(user)
    \/ \E user \in SimUsers : EngineSuspicion(user)
    \/ \E liker \in SimUsers, author \in SimUsers : EngineLike(liker, author)

SpecEngine == InitEngine /\ [][NextEngine]_vars

\* C28: for every liker and day the circle contribution counter and the
\* total weight admitted that day toward the liker's circle stay within
\* DAILY_CIRCLE_CONTRIBUTION_LIMIT; a like toward the circle that would
\* overflow the budget is admitted up to the remaining budget, and a like
\* made once the limit is reached is admitted at 0.
C28_CircleBudget ==
    /\ \A u \in SimUsers :
           /\ \A d \in DOMAIN op.circle_contributions[u] :
                  op.circle_contributions[u][d] <= DAILY_CIRCLE_CONTRIBUTION_LIMIT
           /\ \A d \in 1 .. MaxSimDay :
                  op.admitted[u][d] <= DAILY_CIRCLE_CONTRIBUTION_LIMIT
    /\ op.kind = "calculate_like_weight" /\ op.returned.in_circle =>
           LET r == op.returned
               admitted_weight ==
                   (r.base_weight * r.circle_limit_mult[1]) \div r.circle_limit_mult[2]
               remaining == DAILY_CIRCLE_CONTRIBUTION_LIMIT - r.before
           IN /\ r.base_weight * r.circle_limit_mult[1]
                     = admitted_weight * r.circle_limit_mult[2]
              /\ remaining <= 0 => admitted_weight = 0
              /\ remaining > 0 /\ r.base_weight > remaining => admitted_weight = remaining
              /\ remaining > 0 /\ r.base_weight <= remaining =>
                     admitted_weight = r.base_weight

\* C28 witness: a like toward the circle has been cut to the remaining
\* budget, and a later like of that day is admitted at 0.
C28_Witness ==
    /\ op.kind = "calculate_like_weight" /\ op.returned.in_circle
    /\ op.returned.before = DAILY_CIRCLE_CONTRIBUTION_LIMIT
    /\ op.returned.circle_limit_mult = Frac(0, 1)
    /\ op.admitted[op.user][op.day] = DAILY_CIRCLE_CONTRIBUTION_LIMIT
    /\ op.returned.base_weight * 6 > DAILY_CIRCLE_CONTRIBUTION_LIMIT
    /\ op.returned.base_weight * 5 < DAILY_CIRCLE_CONTRIBUTION_LIMIT

\* C29: between two reset_daily_contributions calls the cached circle and
\* suspicion score of a user are kept whatever interactions are recorded,
\* and get_user_circle and calculate_user_suspicion return them; a call for
\* a user without an entry computes from the interaction history of that
\* moment; a reset with a different day empties both caches, so that every
\* entry, and with it every value returned, was computed on the current day.
C29_CachedForTheDay ==
    /\ [](/\ \A u \in DOMAIN op.circle_cache :
                 op.circle_cache[u].computed_on = op.day
          /\ \A u \in DOMAIN op.suspicion_cache :
                 op.suspicion_cache[u].computed_on = op.day)
    /\ [][ op'.kind # "reset_daily_contributions" =>
               /\ \A u \in DOMAIN op.circle_cache :
                      /\ u \in DOMAIN op'.circle_cache
                      /\ op'.circle_cache[u] = op.circle_cache[u]
               /\ \A u \in DOMAIN op.suspicion_cache :
                      /\ u \in DOMAIN op'.suspicion_cache
                      /\ op'.suspicion_cache[u] = op.suspicion_cache[u] ]_vars
    /\ [][ op'.kind = "reset_daily_contributions" =>
               IF op'.day # op.day
               THEN op'.circle_cache = <<>> /\ op'.suspicion_cache = <<>>
               ELSE /\ op'.circle_cache = op.circle_cache
                    /\ op'.suspicion_cache = op.suspicion_cache ]_vars
    /\ [][ op'.kind = "get_user_circle" =>
               /\ op'.returned = op'.circle_cache[op'.user].value
               /\ op'.returned =
                      IF op'.user \in DOMAIN op.circle_cache
                      THEN op.circle_cache[op'.user].value
                      ELSE CircleOf(op.users[op'.user].interaction_history) ]_vars
    /\ [][ op'.kind = "calculate_user_suspicion" =>
               /\ op'.returned = op'.suspicion_cache[op'.user].value
               /\ op'.returned =
                      IF op'.user \in DOMAIN op.suspicion_cache
                      THEN op.suspicion_cache[op'.user].value
                      ELSE SuspicionOf(op.users[op'.user].interaction_history) ]_vars

\* C29 witness: on the second day calculate_user_suspicion has returned the
\* score of the day's first access, 0, for a user whose twentieth interaction
\* was recorded after it.
C29_Witness ==
    /\ op.kind = "calculate_user_suspicion" /\ op.day = 2
    /\ op.returned = Frac(0, 1)
    /\ SuspicionOf(op.users[op.user].interaction_history) = Frac(9, 10)

(***************************************************************************)
(* The simulator's cabal detection.  The record op holds the part of       *)
(* SimulationState that detect_cabal_activity reads and writes: the day,   *)
(* the cabals, the users and the reward pool.  Balances, scores and the    *)
(* pool are reduced fractions.                                             *)
(***************************************************************************)

CabalUsers == {"m1", "m2", "m3", "m4", "m5", "x1"}

CABAL_DETECTION_RATIO == 3

CABAL_PENALTY_DURATION_DAYS == 30

FracSub(a, b) == FracAdd(a, <<-b[1], b[2]>>)

FracLeq(a, b) == a[1] * b[2] <= b[1] * a[2]

FracMax(a, b) == IF FracLeq(a, b) THEN b ELSE a

RECURSIVE FracSum(_, _)
FracSum(S, f) ==
    IF S = {} THEN Frac(0, 1)
    ELSE LET x == CHOOSE y \in S : TRUE IN FracAdd(f[x], FracSum(S \ {x}, f))

\* The interactions of the members with members of the cabal (inside) or
\* with others.
TotalInteractions(e, members, member_ids, inside) ==
    SumOver(members,
            [m \in members |->
                LET history == e.users[m].interaction_history
                IN TotalCount(history,
                              {i \in DOMAIN history :
                                  (history[i].uid \in member_ids) = inside})])

\* dynamic_seizure_rate = min(CABAL_MAX_SEIZURE_RATE, CABAL_ASSET_SEIZURE_BASE
\* * min(2.0, ratio / CABAL_DETECTION_RATIO) * min(1.5, days_active / 30)).
DynamicSeizureRate(total_internal, total_external, current_day) ==
    LET ratio == Frac(total_internal, Max(total_external, 1))
        ratio_multiplier ==
            FracMin(Frac(2, 1), FracMul(ratio, Frac(1, CABAL_DETECTION_RATIO)))
        days_active == Max(1, current_day - 1)
        duration_multiplier == FracMin(Frac(3, 2), Frac(days_active, 30))
    IN FracMin(Frac(8, 10),
               FracMul(Frac(3, 10), FracMul(ratio_multiplier, duration_multiplier)))

\* The slash of one member.  The three random.uniform draws of the member
\* are taken at the low or at the high end of their ranges.
SlashMember(user, draw, rate, current_day) ==
    LET change == IF draw = "low" THEN 150 ELSE 500
        creator_rate == IF draw = "low" THEN Frac(5, 10) ELSE Frac(8, 10)
        curator_rate == IF draw = "low" THEN Frac(3, 10) ELSE Frac(5, 10)
        seizure_amount == FracMul(user.balance, rate)
    IN [user EXCEPT
           !.reputation.risk = Max(0, Min(1000, @ + change)),
           !.reputation.creator =
               FracMax(Frac(100, 1), FracSub(@, FracMul(@, creator_rate))),
           !.reputation.curator =
               FracMax(Frac(100, 1), FracSub(@, FracMul(@, curator_rate))),
           !.is_cabal_penalized = TRUE,
           !.cabal_penalty_until = current_day + CABAL_PENALTY_DURATION_DAYS,
           !.balance = FracSub(@, seizure_amount),
           !.total_penalty = FracAdd(@, seizure_amount)]

\* The scan of one cabal by detect_cabal_activity.
ScanCabal_Rescan(e, cabal_id, draws) ==
    LET cabal == e.cabals[cabal_id]
        members == cabal.member_ids \cap DOMAIN e.users
        total_internal == TotalInteractions(e, members, cabal.member_ids, TRUE)
        total_external == TotalInteractions(e, members, cabal.member_ids, FALSE)
        rate == DynamicSeizureRate(total_internal, total_external, e.current_day)
    IN IF Cardinality(members) < 3 THEN e
       ELSE IF \/ total_internal > CABAL_DETECTION_RATIO * Max(total_external, 1)
               \/ total_internal > CABAL_VOLUME_THRESHOLD * Cardinality(members)
       THEN [e EXCEPT
                !.cabals[cabal_id].detected = TRUE,
                !.cabals[cabal_id].detection_day = e.current_day,
                !.users = [u \in DOMAIN @ |->
                              IF u \in members
                              THEN SlashMember(@[u], draws[u], rate, e.current_day)
                              ELSE @[u]],
                !.reward_pool =
                    FracAdd(@, FracSum(members,
                                       [u \in members |->
                                           FracMul(e.users[u].balance, rate)]))]
       ELSE e

ScanCabal(e, cabal_id, draws) ==
    LET cabal == e.cabals[cabal_id]
        members == cabal.member_ids \cap DOMAIN e.users
        total_internal == TotalInteractions(e, members, cabal.member_ids, TRUE)
        total_external == TotalInteractions(e, members, cabal.member_ids, FALSE)
        rate == DynamicSeizureRate(total_internal, total_external, e.current_day)
    IN IF cabal.detected \/ Cardinality(members) < 3 THEN e
       ELSE IF \/ total_internal > CABAL_DETECTION_RATIO * Max(total_external, 1)
               \/ total_internal > CABAL_VOLUME_THRESHOLD * Cardinality(members)
       THEN [e EXCEPT
                !.cabals[cabal_id].detected = TRUE,
                !.cabals[cabal_id].detection_day = e.current_day,
                !.users = [u \in DOMAIN @ |->
                              IF u \in members
                              THEN SlashMember(@[u], draws[u], rate, e.current_day)
                              ELSE @[u]],
                !.reward_pool =
                    FracAdd(@, FracSum(members,
                                       [u \in members |->
                                           FracMul(e.users[u].balance, rate)]))]
       ELSE e

\* ChallengeEngine.detect_cabal_activity: every cabal is scanned.
RECURSIVE DetectCabalActivity(_, _, _)
DetectCabalActivity(e, cabal_ids, draws) ==
    IF cabal_ids = {} THEN e
    ELSE LET cabal_id == CHOOSE c \in cabal_ids : TRUE
         IN DetectCabalActivity(ScanCabal(e, cabal_id, draws),
                                cabal_ids \ {cabal_id}, draws)

MaxCabalDay == 49

\* A user with a balance, a Creator score and a history of interactions
\* with one member and with the outsider x1.
CabalUser(balance, creator, inside, internal, external) ==
    [balance |-> Frac(balance, 1), total_penalty |-> Frac(0, 1),
     reputation |-> [creator |-> Frac(creator, 1), curator |-> Frac(150, 1),
                     risk |-> 30],
     is_cabal_penalized |-> FALSE, cabal_penalty_until |-> 0,
     interaction_history |->
         (IF internal > 0 THEN <<[uid |-> inside, count |-> internal]>> ELSE <<>>)
             \o (IF external > 0 THEN <<[uid |-> "x1", count |-> external]>> ELSE <<>>)]

\* Day 1 of a run: one undetected cabal of 2, 3 or 5 of the users m1 to
\* m5, each of whom has interacted with the next one and with x1; no like
\* has been given yet.
CabalRun(size, internal, external) ==
    [kind |-> "init",
     current_day |-> 1,
     cabals |->
         [c \in {"cabal_0"} |->
             [member_ids |->
                  IF size = 5 THEN {"m1", "m2", "m3", "m4", "m5"}
                  ELSE IF size = 3 THEN {"m1", "m2", "m3"}
                  ELSE {"m1", "m2"},
              detected |-> FALSE, detection_day |-> 0]],
     users |->
         [u \in CabalUsers |->
             IF u = "m1" THEN CabalUser(2500, 1000, "m2", internal, external)
             ELSE IF u = "m2" THEN CabalUser(1000, 150, "m1", internal, external)
             ELSE IF u = "x1" THEN CabalUser(1000, 150, "m1", 0, 0)
             ELSE CabalUser(1000, 150, "m1", internal, external)],
     likes |-> <<>>,
     platform_revenue |-> Frac(0, 1),
     reward_pool |-> Frac(0, 1)]

InitCabal ==
    /\ db = EmptyDb
    /\ now = 0
    /\ tx = NoTx
    /\ \E size \in {2, 3, 5}, internal \in {1, 4, 20, 60}, external \in {0, 1, 30} :
           op = CabalRun(size, internal, external)

\* Simulation.run goes to the next day.
NextDay ==
    /\ op.current_day < MaxCabalDay
    /\ op' = [op EXCEPT !.kind = "day", !.current_day = @ + 1]
    /\ UNCHANGED <<db, now, tx>>

\* The weekly detect_cabal_activity of Simulation._simulate_day.
DetectCabals(draws) ==
    /\ op.current_day % 7 = 0
    /\ op' = [DetectCabalActivity(op, DOMAIN op.cabals, draws) EXCEPT
                 !.kind = "detect_cabal_activity"]
    /\ UNCHANGED <<db, now, tx>>

NextCabal ==
    \/ NextDay
    \/ \E draws \in [CabalUsers -> {"low", "high"}] : DetectCabals(draws)

SpecCabal == InitCabal /\ [][NextCabal]_vars

\* The cabal is undetected, has at least 3 members and an internal/external
\* interaction ratio above CABAL_DETECTION_RATIO.
RatioExceeded(e, cabal_id) ==
    LET cabal == e.cabals[cabal_id]
        members == cabal.member_ids \cap DOMAIN e.users
    IN /\ ~cabal.detected
       /\ Cardinality(members) >= 3
       /\ TotalInteractions(e, members, cabal.member_ids, TRUE)
              > CABAL_DETECTION_RATIO
                    * Max(TotalInteractions(e, members, cabal.member_ids, FALSE), 1)

\* The scan flags the cabal, takes from every member between the fractions
\* low and high of the balance, and adds what it takes to the reward pool.
Seized(cabal_id, low, high) ==
    LET members == op.cabals[cabal_id].member_ids
        taken == [u \in members |-> FracSub(op.users[u].balance, op'.users[u].balance)]
    IN /\ op'.cabals[cabal_id].detected
       /\ \A u \in members :
              /\ FracLeq(FracMul(low, op.users[u].balance), taken[u])
              /\ FracLeq(taken[u], FracMul(high, op.users[u].balance))
              /\ FracLeq(op.users[u].balance, op'.users[u].balance) = FALSE
       /\ op'.reward_pool = FracAdd(op.reward_pool, FracSum(members, taken))

\* C30: a scan of an undetected cabal of at least 3 members whose ratio
\* exceeds CABAL_DETECTION_RATIO flags it, lowers every member's balance by
\* a fraction within [0.3, 0.8] of that balance and adds the seized amount
\* to the reward pool.
C30_SeizureWithinBaseAndMax ==
    [][ op'.kind = "detect_cabal_activity" =>
            \A c \in DOMAIN op.cabals :
                RatioExceeded(op, c) => Seized(c, Frac(3, 10), Frac(8, 10)) ]_vars

\* What holds of C30: such a scan flags the cabal, lowers every member's
\* balance by a fraction above 0 and at most 0.8, which is at least 0.3 from
\* day 31 on, and adds the seized amount to the reward pool.
C30_SeizureAtMostMax ==
    [][ op'.kind = "detect_cabal_activity" =>
            \A c \in DOMAIN op.cabals :
                RatioExceeded(op, c) =>
                    Seized(c, IF op.current_day >= 31 THEN Frac(3, 10) ELSE Frac(0, 1),
                           Frac(8, 10)) ]_vars

\* C31: a detected cabal stays detected, with its detection day, and a
\* detect_cabal_activity run over a cabal that is already detected leaves
\* its members (balances, reputation sub-scores, penalty windows) and the
\* reward pool as they were.
C31_PenalizedOnce ==
    [][ \A c \in DOMAIN op.cabals :
            op.cabals[c].detected =>
                /\ op'.cabals[c] = op.cabals[c]
                /\ op'.kind = "detect_cabal_activity" =>
                       /\ \A u \in op.cabals[c].member_ids : op'.users[u] = op.users[u]
                       /\ op'.reward_pool = op.reward_pool ]_vars

\* C31 witness: detect_cabal_activity has run a week or more after it
\* detected the cabal and seized from its members.
C31_Witness ==
    /\ op.kind = "detect_cabal_activity"
    /\ op.cabals["cabal_0"].detected
    /\ op.cabals["cabal_0"].detection_day + 7 <= op.current_day
    /\ op.users["m1"].is_cabal_penalized
    /\ op.reward_pool # Frac(0, 1)

(***************************************************************************)
(* The likes of cabal members.  A day of BitLinkSimulator._simulate_day    *)
(* runs the users' actions first and the weekly detect_cabal_activity      *)
(* last, so a like of the day precedes the scan of that day.               *)
(***************************************************************************)

MaxCabalLikes == 2

\* The cabal penalty step of _give_like: CABAL_PENALTY_MULTIPLIER while the
\* penalty window of the liker is open.
CabalPenalty_UntilIncluded(user, day) ==
    IF user.is_cabal_penalized /\ day <= user.cabal_penalty_until
    THEN Frac(3, 10) ELSE Frac(1, 1)

CabalPenalty(user, day) ==
    IF user.is_cabal_penalized /\ day < user.cabal_penalty_until
    THEN Frac(3, 10) ELSE Frac(1, 1)

\* BitLinkSimulator._give_like from the payment on.  cost is the like cost
\* (0 for a free like), penalty_mult the combined penalty that
\* calculate_like_weight returns and gain the Curator change of a like given.
GiveLike(user, author, cost, penalty_mult, gain) ==
    /\ user # author
    /\ op.kind # "detect_cabal_activity"
    /\ Len(op.likes) < MaxCabalLikes
    /\ FracLeq(cost, op.users[user].balance)
    /\ LET creator_share == FracMul(cost, Frac(8, 10))
           paid == [op.users EXCEPT
                       ![user].balance = FracSub(@, cost),
                       ![author].balance = FracAdd(@, creator_share)]
       IN op' = [op EXCEPT
                    !.kind = "give_like",
                    !.users =
                        [paid EXCEPT
                            ![user].interaction_history = RecordInteraction(@, author),
                            ![user].reputation.curator = FracMax(Frac(0, 1), FracAdd(@, gain))],
                    !.platform_revenue = FracAdd(@, FracSub(cost, creator_share)),
                    !.likes =
                        Append(@, [user_id |-> user, author_id |-> author,
                                   created_day |-> op.current_day,
                                   penalty_mult |-> penalty_mult,
                                   cabal_penalty_mult |->
                                       FracMul(penalty_mult,
                                               CabalPenalty(op.users[user],
                                                            op.current_day))])]
    /\ UNCHANGED <<db, now, tx>>

\* A cabal of five that the first scan detects, or one that no scan detects
\* before a member has given more likes.
InitPenalty ==
    /\ db = EmptyDb
    /\ now = 0
    /\ tx = NoTx
    /\ \E history \in {<<4, 0>>, <<1, 2>>} : op = CabalRun(5, history[1], history[2])

NextPenalty ==
    \/ NextDay
    \/ DetectCabals([u \in CabalUsers |-> IF u = "m1" THEN "high" ELSE "low"])
    \/ \E user \in {"m1", "x1"}, cost \in {Frac(0, 1), Frac(10, 1)} :
           GiveLike(user, "m2", cost, Frac(1, 2), Frac(1, 5))

SpecPenalty == InitPenalty /\ [][NextPenalty]_vars

\* The like carries the 0.3 cabal penalty multiplier.
Damped(like) == like.cabal_penalty_mult = FracMul(like.penalty_mult, Frac(3, 10))

\* The likes given by members of a detected cabal are damped exactly on the
\* days from the first day after the detection day plus first to the day
\* detection_day + last.
DampedWithin(first, last) ==
    \A i \in DOMAIN op.likes, c \in DOMAIN op.cabals :
        op.likes[i].user_id \in op.cabals[c].member_ids /\ op.cabals[c].detected =>
            (Damped(op.likes[i]) <=>
                 /\ op.cabals[c].detection_day + first <= op.likes[i].created_day
                 /\ op.likes[i].created_day <= op.cabals[c].detection_day + last)

\* C32 as stated: a like given on day d by a member of a cabal detected on
\* day D carries the 0.3 multiplier if and only if
\* D <= d < D + CABAL_PENALTY_DURATION_DAYS.
C32_DampedFromDetectionDay == DampedWithin(0, CABAL_PENALTY_DURATION_DAYS - 1)

\* C32 amended: the like carries the multiplier if and only if
\* D < d < D + CABAL_PENALTY_DURATION_DAYS; a like of another user, or of a
\* member of an undetected cabal, or one not carrying it, has the multiplier
\* that calculate_like_weight returned.
C32_DampedAfterDetectionDay ==
    /\ DampedWithin(1, CABAL_PENALTY_DURATION_DAYS - 1)
    /\ \A i \in DOMAIN op.likes :
           /\ ~Damped(op.likes[i]) =>
                  op.likes[i].cabal_penalty_mult = op.likes[i].penalty_mult
           /\ Damped(op.likes[i]) =>
                  \E c \in DOMAIN op.cabals :
                      /\ op.likes[i].user_id \in op.cabals[c].member_ids
                      /\ op.cabals[c].detected
                      /\ op.cabals[c].detection_day < op.likes[i].created_day

\* C32 witness: a member of a cabal detected on day 7 has given a damped
\* like on day 36 and a like that is not damped on day 37.
C32_Witness ==
    /\ op.cabals["cabal_0"].detected /\ op.cabals["cabal_0"].detection_day = 7
    /\ Len(op.likes) = 2
    /\ op.likes[1].user_id = "m1" /\ op.likes[1].created_day = 36 /\ Damped(op.likes[1])
    /\ op.likes[2].user_id = "m1" /\ op.likes[2].created_day = 37 /\ ~Damped(op.likes[2])

(***************************************************************************)
(* LedgerService.spend_with_split: a spend, an earn of the author's share  *)
(* and the platform's share added to PlatformRevenue.                      *)
(***************************************************************************)

MaxSplitLedger == 6

SplitAmounts == {-1, 0, 1, 7, 10}

\* _add_platform_revenue: the day's row is created if missing and its total
\* raised; db.platform_revenue is the total over the rows.
AddPlatformRevenue(d, amount) == [d EXCEPT !.platform_revenue = @ + amount]

\* spend_with_split on the session state d: the outcome, the shares and the
\* state the service leaves.
SpendWithSplit_PlatformFloor(d, user_id, amount, author_id) ==
    LET author_share == (4 * amount) \div 5
        platform_share == amount \div 5
        Failed(result, after) ==
            [result |-> result, db |-> after, author_share |-> 0, platform_share |-> 0]
        Shared(after) ==
            [result |-> "ok",
             db |-> IF platform_share > 0 THEN AddPlatformRevenue(after, platform_share)
                    ELSE after,
             author_share |-> author_share, platform_share |-> platform_share]
        Earned(after, earned) ==
            IF earned.result # "ok" THEN Failed(earned.result, after)
            ELSE Shared([after EXCEPT !.available_balance = earned.balance,
                                      !.ledger = earned.ledger])
        Spent(spent) ==
            IF spent.result # "ok" THEN Failed(spent.result, d)
            ELSE IF author_share > 0
            THEN Earned([d EXCEPT !.available_balance = spent.balance,
                                  !.ledger = spent.ledger],
                        LedgerEarn(spent.balance, spent.ledger, author_id, author_share,
                                   "earn_like", "post", NoRef))
            ELSE Shared([d EXCEPT !.available_balance = spent.balance,
                                  !.ledger = spent.ledger])
    IN IF amount <= 0 THEN Failed("ValueError", d)
       ELSE IF user_id = author_id THEN Failed("ValueError", d)
       ELSE Spent(LedgerSpend(d.available_balance, d.ledger, user_id, amount,
                              "spend_like", "post", NoRef))

SpendWithSplit(d, user_id, amount, author_id) ==
    LET author_share == (4 * amount) \div 5
        platform_share == amount - author_share
        Failed(result, after) ==
            [result |-> result, db |-> after, author_share |-> 0, platform_share |-> 0]
        Shared(after) ==
            [result |-> "ok",
             db |-> IF platform_share > 0 THEN AddPlatformRevenue(after, platform_share)
                    ELSE after,
             author_share |-> author_share, platform_share |-> platform_share]
        Earned(after, earned) ==
            IF earned.result # "ok" THEN Failed(earned.result, after)
            ELSE Shared([after EXCEPT !.available_balance = earned.balance,
                                      !.ledger = earned.ledger])
        Spent(spent) ==
            IF spent.result # "ok" THEN Failed(spent.result, d)
            ELSE IF author_share > 0
            THEN Earned([d EXCEPT !.available_balance = spent.balance,
                                  !.ledger = spent.ledger],
                        LedgerEarn(spent.balance, spent.ledger, author_id, author_share,
                                   "earn_like", "post", NoRef))
            ELSE Shared([d EXCEPT !.available_balance = spent.balance,
                                  !.ledger = spent.ledger])
    IN IF amount <= 0 THEN Failed("ValueError", d)
       ELSE IF user_id = author_id THEN Failed("ValueError", d)
       ELSE Spent(LedgerSpend(d.available_balance, d.ledger, user_id, amount,
                              "spend_like", "post", NoRef))

\* Accounts that hold nothing or 10 sat.
InitSplit ==
    \E deposit \in [Users -> {0, 10}] :
        /\ db = SeededDb(deposit)
        /\ now = 0
        /\ op = [kind |-> "none", user |-> 0, amount |-> 0, result |-> "none",
                 author |-> 0, author_share |-> 0, platform_share |-> 0]
        /\ tx = NoTx

\* One call of spend_with_split: the session is left as the service left it.
SplitCall(user_id, amount, author_id) ==
    /\ Len(ledger) + 2 <= MaxSplitLedger
    /\ LET r == SpendWithSplit(db, user_id, amount, author_id)
       IN /\ db' = r.db
          /\ op' = [kind |-> "spend_with_split", user |-> user_id, amount |-> amount,
                    result |-> r.result, author |-> author_id,
                    author_share |-> r.author_share,
                    platform_share |-> r.platform_share]
    /\ UNCHANGED <<now, tx>>

NextSplit ==
    \E user_id \in UserIds, amount \in SplitAmounts, author_id \in UserIds :
        SplitCall(user_id, amount, author_id)

SpecSplit == InitSplit /\ [][NextSplit]_vars

\* C33: a spend_with_split that fails for its amount, for user = author or
\* for an insufficient balance changes no balance, no ledger entry and no
\* platform revenue; one that succeeds debits the spender by amount, credits
\* the author floor(0.8 * amount), raises the platform revenue by
\* platform_share, and the two shares add up to amount.
C33_SplitConserves ==
    [][ op'.kind = "spend_with_split" =>
            LET user_id == op'.user
                author_id == op'.author
                amount == op'.amount
            IN /\ \/ amount <= 0
                  \/ user_id = author_id
                  \/ user_id \in Users /\ available_balance[user_id] < amount
                  => op'.result # "ok" /\ db' = db
               /\ op'.result = "ok" =>
                      /\ 5 * op'.author_share <= 4 * amount
                      /\ 4 * amount < 5 * (op'.author_share + 1)
                      /\ op'.author_share + op'.platform_share = amount
                      /\ db'.available_balance =
                             [u \in Users |->
                                 IF u = user_id THEN available_balance[u] - amount
                                 ELSE IF u = author_id
                                 THEN available_balance[u] + op'.author_share
                                 ELSE available_balance[u]]
                      /\ db'.platform_revenue = platform_revenue + op'.platform_share
                      /\ SumOver(Users, db'.available_balance) + db'.platform_revenue
                             = SumOver(Users, available_balance) + platform_revenue ]_vars

\* C33 witness: a split of 7 has paid 5 to the author and 2 to the platform.
C33_Witness ==
    /\ op.kind = "spend_with_split" /\ op.result = "ok" /\ op.amount = 7
    /\ op.author_share = 5 /\ op.platform_share = 2
    /\ platform_revenue >= 2

(***************************************************************************)
(* like_post and unlike_post over the post_likes table kept row by row     *)
(* and the likes_count column of posts.  The rows and the counts are in    *)
(* op; db.post_likes is the set of (post, user) pairs of the rows.         *)
(***************************************************************************)

MaxLikeCalls == 5

\* The rows of post_likes for the pair: what the SELECT of like_post and of
\* unlike_post finds.
LikeRows(rows, post_id, user_id) ==
    {i \in DOMAIN rows : rows[i].post_id = post_id /\ rows[i].user_id = user_id}

\* like_post: the outcome, the database, the rows and the counts it leaves.
LikePostCounted_NoExistingCheck(d, rows, likes_count, at, post_id, user_id) ==
    LET Left(r, rows1, count1) ==
            [result |-> r.result, db |-> r.db, rows |-> rows1, likes_count |-> count1]
        Liked(d1) ==
            Left(Done(LogInteraction([d1 EXCEPT !.post_likes = @ \cup {<<post_id, user_id>>}],
                                     at, user_id, d.posts[post_id].author_id)),
                 Append(rows, [post_id |-> post_id, user_id |-> user_id]),
                 [likes_count EXCEPT ![post_id] = @ + 1])
        AfterCharge(c1) ==
            IF c1.result = "InsufficientBalance" THEN Left(Raised(c1.db, "402"), rows, likes_count)
            ELSE IF c1.result # "ok" THEN Left(Raised(c1.db, c1.result), rows, likes_count)
            ELSE Liked(c1.db)
    IN IF ~PostIsActive(d, post_id) THEN Left(Raised(d, "404"), rows, likes_count)
       ELSE IF d.posts[post_id].author_id = user_id
       THEN Left(Raised(d, "400"), rows, likes_count)
       ELSE IF user_id \notin DOMAIN d.user_scores
       THEN Left(Raised(d, "404"), rows, likes_count)
       ELSE AfterCharge(Charge(d, user_id,
                               ApplyK(BASE_LIKE_POST_COST,
                                      d.user_scores[user_id].trust_score),
                               "spend_like", "post", post_id))

LikePostCounted(d, rows, likes_count, at, post_id, user_id) ==
    LET Left(r, rows1, count1) ==
            [result |-> r.result, db |-> r.db, rows |-> rows1, likes_count |-> count1]
        existing == LikeRows(rows, post_id, user_id)
        \* The INSERT of the flush: uq_post_like refuses a second row of the pair.
        Liked(d1) ==
            IF existing # {} THEN Left(Raised(d1, "500"), rows, likes_count)
            ELSE Left(Done(LogInteraction(
                               [d1 EXCEPT !.post_likes = @ \cup {<<post_id, user_id>>}],
                               at, user_id, d.posts[post_id].author_id)),
                      Append(rows, [post_id |-> post_id, user_id |-> user_id]),
                      [likes_count EXCEPT ![post_id] = @ + 1])
        AfterCharge(c1) ==
            IF c1.result = "InsufficientBalance" THEN Left(Raised(c1.db, "402"), rows, likes_count)
            ELSE IF c1.result # "ok" THEN Left(Raised(c1.db, c1.result), rows, likes_count)
            ELSE Liked(c1.db)
    IN IF ~PostIsActive(d, post_id) THEN Left(Raised(d, "404"), rows, likes_count)
       ELSE IF d.posts[post_id].author_id = user_id
       THEN Left(Raised(d, "400"), rows, likes_count)
       \* scalar_one_or_none raises when it finds more than one row
       ELSE IF Cardinality(existing) > 1 THEN Left(Raised(d, "500"), rows, likes_count)
       ELSE IF existing # {} THEN Left(Done(d), rows, likes_count)
       ELSE IF user_id \notin DOMAIN d.user_scores
       THEN Left(Raised(d, "404"), rows, likes_count)
       ELSE AfterCharge(Charge(d, user_id,
                               ApplyK(BASE_LIKE_POST_COST,
                                      d.user_scores[user_id].trust_score),
                               "spend_like", "post", post_id))

\* unlike_post
UnlikePostCounted(d, rows, likes_count, post_id, user_id) ==
    LET Left(r, rows1, count1) ==
            [result |-> r.result, db |-> r.db, rows |-> rows1, likes_count |-> count1]
        existing == LikeRows(rows, post_id, user_id)
        kept == SelectSeq(rows, LAMBDA row : ~(row.post_id = post_id /\ row.user_id = user_id))
    IN IF post_id \notin 1 .. Len(d.posts) THEN Left(Raised(d, "404"), rows, likes_count)
       ELSE IF Cardinality(existing) > 1 THEN Left(Raised(d, "500"), rows, likes_count)
       ELSE IF existing = {} THEN Left(Done(d), rows, likes_count)
       ELSE Left(Done([d EXCEPT !.post_likes = @ \ {<<post_id, user_id>>}]),
                 kept,
                 [likes_count EXCEPT ![post_id] = Max(0, @ - 1)])

\* delete_post
DeletePostOn(d, post_id, author_id) ==
    IF post_id \notin 1 .. Len(d.posts) THEN Raised(d, "404")
    ELSE IF d.posts[post_id].author_id # author_id THEN Raised(d, "403")
    ELSE Done([d EXCEPT !.posts[post_id].status = "deleted"])

\* get_db around a handler that leaves rows and counts: all is committed if
\* it returned and rolled back if it raised.
RespondCounted(kind, user_id, post_id, r) ==
    /\ op.calls < MaxLikeCalls
    /\ db' = IF r.result = "ok" THEN r.db ELSE db
    /\ op' = [kind |-> kind, user |-> user_id, amount |-> post_id, result |-> r.result,
              calls |-> op.calls + 1,
              rows |-> IF r.result = "ok" THEN r.rows ELSE op.rows,
              likes_count |-> IF r.result = "ok" THEN r.likes_count ELSE op.likes_count]
    /\ UNCHANGED <<now, tx>>

\* Post 1 of user 1 and post 2 of user 2, not liked; user 3 has no sat.
InitLikes ==
    /\ db = Replay(SeededDb([u \in Users |-> IF u = 3 THEN 0 ELSE 50000]), 0,
                   <<Call("post", 1, 0, 0), Call("post", 2, 0, 0)>>)
    /\ now = 0
    /\ op = [kind |-> "none", user |-> 0, amount |-> 0, result |-> "none", calls |-> 0,
             rows |-> <<>>, likes_count |-> [p \in 1 .. 2 |-> 0]]
    /\ tx = NoTx

LikePostCall(post_id, user_id) ==
    /\ RespondCounted("like_post", user_id, post_id,
                      LikePostCounted(db, op.rows, op.likes_count, now, post_id, user_id))

UnlikePostCall(post_id, user_id) ==
    /\ RespondCounted("unlike_post", user_id, post_id,
                      UnlikePostCounted(db, op.rows, op.likes_count, post_id, user_id))

DeletePostCall(post_id, author_id) ==
    /\ LET r == DeletePostOn(db, post_id, author_id)
       IN RespondCounted("delete_post", author_id, post_id,
                         [result |-> r.result, db |-> r.db, rows |-> op.rows,
                          likes_count |-> op.likes_count])

NextLikes ==
    \/ \E post_id \in 1 .. 3, user_id \in UserIds : LikePostCall(post_id, user_id)
    \/ \E post_id \in 1 .. 3, user_id \in UserIds : UnlikePostCall(post_id, user_id)
    \/ \E post_id \in 1 .. 3, author_id \in Users : DeletePostCall(post_id, author_id)

SpecLikes == InitLikes /\ [][NextLikes]_vars

\* C34: the rows of post_likes hold at most one row per (post, user) pair;
\* the likes_count of a post is the number of its rows; and a like_post by a
\* user who already likes the post charges nothing and adds no like and no
\* interaction record.
C34_OneLikePerPair ==
    /\ [](/\ \A i, j \in DOMAIN op.rows : op.rows[i] = op.rows[j] => i = j
          /\ \A p \in DOMAIN op.likes_count :
                 op.likes_count[p] = Cardinality({i \in DOMAIN op.rows : op.rows[i].post_id = p})
          /\ post_likes = {<<op.rows[i].post_id, op.rows[i].user_id>> : i \in DOMAIN op.rows})
    /\ [][ /\ op'.kind = "like_post"
           /\ LikeRows(op.rows, op'.amount, op'.user) # {}
           => /\ PostIsActive(db, op'.amount) => op'.result = "ok"
              /\ db' = db
              /\ op'.rows = op.rows
              /\ op'.likes_count = op.likes_count ]_vars

\* C34 witness: user 2 likes post 1 again after a like, an unlike and a like;
\* two fees have been charged and the post has one like.
C34_Witness ==
    /\ op.kind = "like_post" /\ op.user = 2 /\ op.amount = 1 /\ op.result = "ok"
    /\ op.calls = 4
    /\ op.likes_count[1] = 1 /\ Len(op.rows) = 1
    /\ Cardinality({i \in DOMAIN ledger : ledger[i].action_type = "spend_like"}) = 2

-----------------------------------------------------------------------------
(* Settlement amounts of one run *)

\* The CommentReward rows written for the PostReward of a post.
CommentRewardsOf(d, post_id) ==
    {c \in d.comment_rewards :
        \E r \in d.post_rewards : r.post_id = post_id /\ r.id = c.post_reward_id}

\* The reward of a post of the batch the run read: its share of the pool.
PostRewardAmount(plan, post_id) ==
    IF plan.total_scores > 0 /\ plan.scores[post_id] > 0
    THEN RewardShare(plan.scores[post_id], plan.total_scores, plan.pool_amount)
    ELSE 0

\* C35: in every settlement run, author_reward + comment_pool of each post
\* (in the summary and in its PostReward row) equals the post's reward, the
\* comment rewards paid for the post sum to at most its comment_pool, and the
\* run's total_distributed is at most the pool computed for the run.
C35_RunWithinPool ==
    [][(now' = now /\ op'.kind = "settle" /\ op'.result = "ok")
       => LET plan == ReadBatch(db, now, op'.before)
              Paid(post_id) == CommentRewardsOf(db', post_id) IN
          /\ {s.post_id : s \in op'.posts} = plan.batch
          /\ \A s \in op'.posts :
                /\ s.author_reward + s.comment_pool
                       = PostRewardAmount(plan, s.post_id)
                /\ \E r \in db'.post_rewards \ db.post_rewards :
                       /\ r.post_id = s.post_id
                       /\ r.author_reward = s.author_reward
                       /\ r.comment_pool = s.comment_pool
                /\ SumOver(Paid(s.post_id),
                           [c \in Paid(s.post_id) |-> c.reward_amount])
                       <= s.comment_pool
          /\ op'.pool = plan.pool_amount
          /\ op'.total_distributed <= op'.pool]_vars

\* A run has settled a post whose two comments were paid less than its
\* comment pool, and has paid out less than its pool.
C35_Witness ==
    /\ op.kind = "settle"
    /\ op.result = "ok"
    /\ 0 < op.total_distributed
    /\ op.total_distributed < op.pool
    /\ \E s \in op.posts :
          LET paid == CommentRewardsOf(db, s.post_id) IN
          /\ s.author_reward > 0
          /\ Cardinality(paid) = 2
          /\ SumOver(paid, [c \in paid |-> c.reward_amount]) < s.comment_pool

-----------------------------------------------------------------------------
(* The RewardPool rows *)

\* Everything paid against a pool: the author rewards of its PostReward rows
\* and the CommentReward rows written for them.
PaidAgainst(d, pool_id) ==
    LET prs == {r \in d.post_rewards : r.pool_id = pool_id}
        crs == {c \in d.comment_rewards : c.post_reward_id \in {r.id : r \in prs}}
    IN SumOver(prs, [r \in prs |-> r.author_reward])
           + SumOver(crs, [c \in crs |-> c.reward_amount])

MaxPoolPosts == 3

\* create_post and like_post between settlement runs.
LatePost(author_id) ==
    /\ Len(posts) < MaxPoolPosts
    /\ Respond("create_post", author_id, CreatePostOn(db, now, author_id, "note", 0))

LateLike(post_id, user_id) ==
    /\ post_id > 2
    /\ Respond("like_post", user_id, LikePostOn(db, now, post_id, user_id))

\* Day 0: posts 1 and 2 are written, post 1 is commented and both are liked.
InitPool ==
    \E commenters \in {<<>>, <<2>>},
       likers1 \in {{}, {2}},
       likers2 \in {{}, {3}} :
        /\ db = Populated({}, commenters, [i \in {1, 2} |-> {3}], likers1,
                          2, 0, likers2)
        /\ now = 0
        /\ op = NoOp
        /\ tx = NoTx

NextPool ==
    \/ \E n \in {0, 7} : Settle(n)
    \/ AdvanceWeek
    \/ \E u \in {1, 3} : LatePost(u)
    \/ \E p \in 1 .. MaxPoolPosts, u \in {2} : LateLike(p, u)

SpecPool == InitPool /\ [][NextPool]_vars

\* C36: the total_distributed of every RewardPool equals the sum of the author
\* and comment rewards paid against it by all the runs that share its settle
\* date, and is at most its total_pool.
C36_PoolDistributedIsSumPaid ==
    \A r \in reward_pools :
        /\ r.total_distributed = PaidAgainst(db, r.id)
        /\ r.total_distributed <= r.total_pool

\* What holds of a pool: total_distributed is what the last run of its settle
\* date paid, which is at most everything paid against the pool, which is at
\* most total_pool.
C36_PoolDistributedWithinPaid ==
    \A r \in reward_pools :
        /\ r.total_distributed <= PaidAgainst(db, r.id)
        /\ PaidAgainst(db, r.id) <= r.total_pool
        /\ r.post_count = Cardinality({x \in post_rewards : x.pool_id = r.id})

\* Two runs have shared a settle date.
C36_Witness ==
    \E r \in reward_pools :
        /\ r.total_distributed < PaidAgainst(db, r.id)
        /\ op.kind = "settle"
        /\ op.result = "ok"
        /\ op.posts_settled > 0
        /\ op.before = r.settle_date
        /\ op.total_distributed = r.total_distributed

-----------------------------------------------------------------------------
(* Posts removed by a guilty verdict *)

\* The posts of d that a guilty challenge removed and that have no PostReward.
RemovedUnsettled(d) ==
    {p \in 1 .. Len(d.posts) :
        /\ \E c \in d.challenges :
               c.content_type = "post" /\ c.content_id = p /\ c.status = "guilty"
        /\ ~\E r \in d.post_rewards : r.post_id = p}

\* The ledger entries that pay the settlement reward of a post.
PostRewardEntries(d, post_id) ==
    {i \in 1 .. Len(d.ledger) :
        /\ d.ledger[i].action_type = "reward_post"
        /\ d.ledger[i].ref_type = "post"
        /\ d.ledger[i].ref_id = post_id}

\* C37: a post removed by a guilty verdict before it was settled stays
\* deleted, no later step (settlement run or other request) creates a
\* PostReward for it or pays a settlement reward for it.
C37_RemovedNeverSettled ==
    [][\A p \in RemovedUnsettled(db) :
           /\ db.posts[p].status = "deleted"
           /\ p \in RemovedUnsettled(db')
           /\ db'.posts[p].status = "deleted"
           /\ PostRewardEntries(db', p) = {}
           /\ (op'.kind = "settle" /\ op' # op)
                  => p \notin {s.post_id : s \in op'.posts}]_vars

\* A settlement run has settled a post while an older post, removed by a
\* guilty verdict, is left without PostReward.
C37_Witness ==
    /\ op.kind = "settle"
    /\ op.result = "ok"
    /\ op.posts_settled > 0
    /\ \E p \in RemovedUnsettled(db) :
          /\ db.posts[p].created_at <= op.before
          /\ \E s \in op.posts : s.post_id > p

-----------------------------------------------------------------------------
(* create_challenge and the sum of the balances *)

SumBalances(d) == SumOver(Users, d.available_balance)

\* C38: create_challenge never creates currency: for every outcome of a call
\* (rejected, failed, guilty with the fine collected in full or in part,
\* not_guilty) the sum of all balances after the call is at most the sum
\* before it, and a call that is rejected or fails leaves every balance as
\* it was.
C38_ChallengeCreatesNoCurrency ==
    [][(now' = now /\ op'.kind = "create_challenge")
       => /\ SumBalances(db') <= SumBalances(db)
          /\ op'.result # "ok" => available_balance' = available_balance
          /\ (op'.result = "ok" /\ op'.verdict = "not_guilty")
                 => SumBalances(db') < SumBalances(db)]_vars

\* The last call found the content guilty; the author's balance was below the
\* fine and is now 0, and the fee, the fine collected and the challenger's
\* credit add up to a loss.
C38_Witness ==
    /\ op.kind = "create_challenge" /\ op.result = "ok" /\ op.verdict = "guilty"
    /\ Len(ledger) >= 3
    /\ LET paid == ledger[Len(ledger)]
           fine == ledger[Len(ledger) - 1]
           fee == ledger[Len(ledger) - 2]
       IN /\ fee.action_type = "challenge_fee" /\ fee.user_id = op.user
          /\ fine.action_type = "fine" /\ fine.balance_after = 0
          /\ fine.amount < 0
          /\ -fine.amount
                 < FineFor(op.content_type, op.content_id)
          /\ paid.action_type = "challenge_reward" /\ paid.user_id = op.user
          /\ paid.amount > -fee.amount
          /\ fee.amount + fine.amount + paid.amount < 0

-----------------------------------------------------------------------------
(* The simulator's challenges.                                              *)
(* The state of the simulation (SimulationState: users, content, the        *)
(* settlements pending per day, the challenges and the reward pool) is kept *)
(* in op; amounts are exact fractions.  A user's trust score is the outcome *)
(* of the reputation changes, which are random draws: every change leaves   *)
(* the user at one of TrustLevels.                                          *)

Challengers == {"a1", "a2", "ch"}

ContentIds == {"c1", "c2"}

TrustLevels == {250, 1000}

F_L1 == 100

HUMAN_PLEDGE_PENALTY_MULT == 2

\* PENALTY_MULTIPLIERS.get(content.violation_type or 'low_quality', 0.5)
PenaltyMultiplier(violation_type) ==
    CASE violation_type = "spam_ad" -> Frac(1, 1)
      [] violation_type = "plagiarism_ai" -> Frac(3, 2)
      [] violation_type = "scam_phishing" -> Frac(2, 1)
      [] OTHER -> Frac(1, 2)

CHALLENGE_DISTRIBUTION ==
    [challenger_reward |-> Frac(35, 100), jury_reward |-> Frac(25, 100),
     pool_reward |-> Frac(40, 100)]

\* User.k_factor: max(0.6, min(1.4, 1.4 - trust_score / 1250))
KFactor(trust_score) ==
    FracMax(Frac(3, 5), FracMin(Frac(7, 5), FracSub(Frac(7, 5), Frac(trust_score, 1250))))

\* EconomicEngine.get_challenge_cost(user, layer=1)
GetChallengeCost(user) == FracMul(Frac(F_L1, 1), KFactor(user.trust_score))

\* User.can_afford
CanAfford(user, amount) == FracLeq(amount, user.balance)

\* User.penalize: at most the balance is taken.
Penalize(user, amount) ==
    [user EXCEPT !.balance = FracSub(@, FracMin(user.balance, amount))]

\* User.earn
Earn(user, amount) == [user EXCEPT !.balance = FracAdd(@, amount)]

\* The pool's part of a penalty without the jury's share.
GuiltyPoolReward_WithoutJuryShare(actual_penalty) ==
    FracMul(actual_penalty, CHALLENGE_DISTRIBUTION.pool_reward)

\* The pool's part of a penalty: layer 1 has no jury, so the jury's share
\* goes to the pool as well.
GuiltyPoolReward(actual_penalty) ==
    FracAdd(FracMul(actual_penalty, CHALLENGE_DISTRIBUTION.pool_reward),
            FracMul(actual_penalty, CHALLENGE_DISTRIBUTION.jury_reward))

\* ChallengeEngine._settle_challenge on the state e.  trust gives the trust
\* score each user has after the reputation changes of the settlement.
SettleChallenge(e, challenge, is_violation, trust) ==
    LET content == e.content[challenge.content_id]
        author == e.users[challenge.author_id]
        challenger == e.users[challenge.challenger_id]
        Resolved(c, penalty, challenger_reward, jury_reward, pool_contribution) ==
            [c EXCEPT !.verdict = IF is_violation THEN "guilty" ELSE "not_guilty",
                      !.status = "resolved_l1",
                      !.penalty_amount = penalty,
                      !.challenger_reward = challenger_reward,
                      !.jury_reward = jury_reward,
                      !.pool_contribution = pool_contribution]
        \* Lines 481-543
        Guilty ==
            LET violation_mult ==
                    IF content.human_pledge
                    THEN FracMul(PenaltyMultiplier(content.violation_type),
                                 Frac(HUMAN_PLEDGE_PENALTY_MULT, 1))
                    ELSE PenaltyMultiplier(content.violation_type)
                penalty == FracMul(content.cost_paid, violation_mult)
                punished == Penalize(author, penalty)
                actual_penalty == FracSub(author.balance, punished.balance)
                challenger_reward ==
                    FracMul(actual_penalty, CHALLENGE_DISTRIBUTION.challenger_reward)
                jury_reward ==
                    FracMul(actual_penalty, CHALLENGE_DISTRIBUTION.jury_reward)
                total_pool_reward == GuiltyPoolReward(actual_penalty)
                Reputed(u, name) ==
                    IF name = challenge.author_id \/ name \in content.likes
                    THEN [u EXCEPT !.trust_score = trust[name]] ELSE u
                users1 == [e.users EXCEPT
                             ![challenge.author_id] =
                                 [punished EXCEPT !.violations_committed = @ + 1],
                             ![challenge.challenger_id] =
                                 [Earn(challenger, FracAdd(challenge.l1_fee,
                                                           challenger_reward))
                                     EXCEPT !.challenges_won = @ + 1]]
            IN [e EXCEPT
                  !.content[challenge.content_id].status = "removed",
                  !.users = [name \in DOMAIN users1 |-> Reputed(users1[name], name)],
                  !.reward_pool = FracAdd(@, total_pool_reward),
                  !.challenges = Append(@, Resolved(challenge, penalty,
                                                    challenger_reward, jury_reward,
                                                    total_pool_reward))]
        \* Lines 545-561
        NotGuilty ==
            LET compensation == FracMul(challenge.l1_fee, Frac(20, 100))
                pool_share == FracMul(challenge.l1_fee, Frac(50, 100))
                residual_share ==
                    FracMax(Frac(0, 1),
                            FracSub(FracSub(challenge.l1_fee, compensation), pool_share))
                total_pool_share == FracAdd(pool_share, residual_share)
            IN [e EXCEPT
                  !.users[challenge.challenger_id].challenges_lost = @ + 1,
                  !.users[challenge.author_id] =
                      [Earn(author, compensation) EXCEPT
                          !.trust_score = trust[challenge.author_id]],
                  !.reward_pool = FracAdd(@, total_pool_share),
                  !.challenges = Append(@, Resolved(challenge, Frac(0, 1), Frac(0, 1),
                                                    Frac(0, 1), total_pool_share))]
    IN IF is_violation THEN Guilty ELSE NotGuilty

\* The content a user may pick in _initiate_challenge: active content of the
\* last seven days by somebody else.
Challengeable(e, user_id) ==
    {c \in DOMAIN e.content :
        /\ e.content[c].created_day \in Max(0, e.day - 7) .. e.day
        /\ e.content[c].status = "active"
        /\ e.content[c].author_id # user_id}

\* BitLinkSimulator._initiate_challenge with the target it picked:
\* the fee is spent, the content is marked challenged and the challenge is
\* resolved at once.
InitiateChallengeOn(e, user_id, target, trust) ==
    LET cost == GetChallengeCost(e.users[user_id])
        challenge == [content_id |-> target, challenger_id |-> user_id,
                      author_id |-> e.content[target].author_id,
                      created_day |-> e.day, l1_fee |-> cost,
                      status |-> "pending_l1", verdict |-> "none",
                      penalty_amount |-> Frac(0, 1), challenger_reward |-> Frac(0, 1),
                      jury_reward |-> Frac(0, 1), pool_contribution |-> Frac(0, 1)]
        charged == [e EXCEPT
                      !.users[user_id].balance = FracSub(@, cost),
                      !.users[user_id].challenges_initiated = @ + 1,
                      !.content[target].status = "challenged"]
    IN IF ~CanAfford(e.users[user_id], cost) THEN e
       ELSE IF target \notin Challengeable(e, user_id) THEN e
       ELSE SettleChallenge(charged, challenge, e.content[target].is_violation, trust)

\* EconomicEngine.settle_rewards(day): the content whose settlement is
\* pending for the day is marked settled.
SettleRewards(e, day) ==
    IF day \notin DOMAIN e.pending_settlements THEN e
    ELSE [e EXCEPT
            !.content = [c \in DOMAIN @ |->
                            IF c \in e.pending_settlements[day]
                            THEN [@[c] EXCEPT !.status = "settled"] ELSE @[c]],
            !.pending_settlements =
                [d \in DOMAIN @ \ {day} |-> @[d]]]

MaxChallengeDay == 10

MaxSimChallenges == 2

SimPerson(balance, trust_score) ==
    [balance |-> Frac(balance, 1), trust_score |-> trust_score,
     violations_committed |-> 0, challenges_won |-> 0, challenges_lost |-> 0,
     challenges_initiated |-> 0]

SimContent(author_id, created_day, is_violation, violation_type, human_pledge,
           cost_paid, likes) ==
    [author_id |-> author_id, created_day |-> created_day,
     is_violation |-> is_violation, violation_type |-> violation_type,
     human_pledge |-> human_pledge, cost_paid |-> Frac(cost_paid, 1),
     status |-> "active", likes |-> likes]

\* SimulationState.add_content for each content item: its settlement is
\* pending for the seventh day after its creation.
PendingOf(content) ==
    [d \in {content[c].created_day + 7 : c \in DOMAIN content} |->
        {c \in DOMAIN content : content[c].created_day + 7 = d}]

\* Day 2: a1 has written c1 on day 1, a2 has written c2 on day 1 or 2.
InitSimChallenge ==
    \E author_balance \in {5, 1000}, challenger_trust \in TrustLevels,
       violation_type \in {"none", "low_quality", "scam_phishing"},
       human_pledge \in BOOLEAN, cost_paid \in {0, 25}, day2 \in {1, 2} :
        LET content == [c \in ContentIds |->
                           IF c = "c1"
                           THEN SimContent("a1", 1, violation_type # "none",
                                           violation_type, human_pledge,
                                           cost_paid, {"a2"})
                           ELSE SimContent("a2", day2, FALSE, "none", FALSE, 20, {})]
        IN
        /\ db = EmptyDb
        /\ now = 0
        /\ tx = NoTx
        /\ op = [kind |-> "initialize", day |-> 2,
                 users |-> [u \in Challengers |->
                               IF u = "a1" THEN SimPerson(author_balance, 1000)
                               ELSE IF u = "a2" THEN SimPerson(1000, 1000)
                               ELSE SimPerson(130, challenger_trust)],
                 content |-> content,
                 pending_settlements |-> PendingOf(content),
                 challenges |-> <<>>,
                 reward_pool |-> Frac(0, 1)]

\* One challenge of the day's user actions.
InitiateChallenge(user_id, target, trust) ==
    /\ Len(op.challenges) < MaxSimChallenges
    /\ op' = [InitiateChallengeOn(op, user_id, target, trust)
                 EXCEPT !.kind = "initiate_challenge"]
    /\ UNCHANGED <<db, now, tx>>

\* The end of the day: settle_rewards, then the next day begins.
SettleRewardsOfDay ==
    /\ op.day < MaxChallengeDay
    /\ op' = [SettleRewards(op, op.day) EXCEPT !.kind = "settle_rewards",
                                                !.day = op.day + 1]
    /\ UNCHANGED <<db, now, tx>>

NextSimChallenge ==
    \/ \E u \in {"a2", "ch"}, c \in ContentIds, t \in [Challengers -> TrustLevels] :
           InitiateChallenge(u, c, t)
    \/ SettleRewardsOfDay

SpecSimChallenge == InitSimChallenge /\ [][NextSimChallenge]_vars

\* The currency of the simulation: the balances and the reward pool.
SimCurrency(e) ==
    FracAdd(FracSum(Challengers, [u \in Challengers |-> e.users[u].balance]),
            e.reward_pool)

\* C39: the simulator's challenge settlement conserves currency.  On
\* not_guilty the author's compensation plus the amount added to the reward
\* pool equals the L1 fee the challenger paid; on guilty the challenger gets
\* back exactly the L1 fee on top of the reward, and the reward plus the
\* amount added to the reward pool equals the penalty collected from the
\* author.
C39_ChallengeConserves ==
    [][(op'.kind = "initiate_challenge" /\ Len(op'.challenges) = Len(op.challenges) + 1)
       => LET c == op'.challenges[Len(op'.challenges)]
              Gain(u) == FracSub(op'.users[u].balance, op.users[u].balance)
              added == FracSub(op'.reward_pool, op.reward_pool)
              collected == FracSub(Frac(0, 1), Gain(c.author_id))
          IN /\ c.l1_fee = GetChallengeCost(op.users[c.challenger_id])
             /\ added = c.pool_contribution
             /\ SimCurrency(op') = SimCurrency(op)
             /\ \A u \in Challengers \ {c.author_id, c.challenger_id} :
                    Gain(u) = Frac(0, 1)
             /\ c.verdict = "not_guilty"
                    => /\ FracAdd(Gain(c.author_id), added) = c.l1_fee
                       /\ Gain(c.challenger_id) = FracSub(Frac(0, 1), c.l1_fee)
             /\ c.verdict = "guilty"
                    => /\ Gain(c.challenger_id) = c.challenger_reward
                       /\ FracLeq(Frac(0, 1), collected)
                       /\ FracLeq(collected, c.penalty_amount)
                       /\ FracAdd(c.challenger_reward, added) = collected]_vars

\* Both verdicts have been settled: a not_guilty one, and a guilty one whose
\* penalty the author could pay only in part.
C39_Witness ==
    /\ Len(op.challenges) = 2
    /\ \E i, j \in 1 .. 2 :
          /\ op.challenges[i].verdict = "not_guilty"
          /\ op.challenges[j].verdict = "guilty"
          /\ FracLeq(Frac(1, 1), op.challenges[j].challenger_reward)
          /\ ~FracLeq(op.challenges[j].penalty_amount,
                      FracAdd(op.challenges[j].challenger_reward,
                              op.challenges[j].pool_contribution))

\* C40: once a content item's status is REMOVED through a guilty verdict, no
\* later operation (a challenge resolution or the daily settle_rewards)
\* changes its status again.
C40_RemovedStaysRemoved ==
    [][\A c \in ContentIds :
           op.content[c].status = "removed" => op'.content[c].status = "removed"]_vars

\* What holds of removed content: no challenge can pick it, and its status
\* changes only once, to SETTLED, in the settle_rewards of the seventh day
\* after its creation.
C40_RemovedUntilSettled ==
    [][\A c \in ContentIds :
           /\ op.content[c].status \in {"removed", "settled"}
                  => c \notin Challengeable(op, "ch") \cup Challengeable(op, "a2")
           /\ (op.content[c].status = "removed" /\ op'.content[c].status # "removed")
                  => /\ op'.kind = "settle_rewards"
                     /\ op'.content[c].status = "settled"
                     /\ op.day = op.content[c].created_day + 7
           /\ op.content[c].status = "settled" => op'.content[c].status = "settled"]_vars

\* A content item that a guilty verdict removed has been marked settled.
C40_Witness ==
    \E i \in 1 .. Len(op.challenges) :
        /\ op.challenges[i].verdict = "guilty"
        /\ op.content[op.challenges[i].content_id].status = "settled"
        /\ op.kind = "settle_rewards"

=============================================================================
